---- MODULE Spec2Model ----
(***************************************************************************)
(* State-machine model of the XSD coverage tool chain:                     *)
(*   - PairwiseCoverageGenerator / ScalablePairwiseCoverageGenerator       *)
(*     (exsisting_code/pairwise_generator.py, pairwise_generator_scalable) *)
(*   - SetCoverOptimizer.solve_greedy (exsisting_code/xml_generator.py)    *)
(*   - SchemaAnalyzer, OptionalElementExtractor, XMLGenerator and          *)
(*     PairwiseXMLBuilder traversals over a schema.                        *)
(* Every subsystem has its own specification over the shared variables;    *)
(* the variables of the other subsystems stay at their initial values.     *)
(***************************************************************************)
EXTENDS Integers, Sequences, FiniteSets, TLC

VARIABLES
    \* ---- pairwise generators -------------------------------------------
    generator,        \* "basic" (PairwiseCoverageGenerator) or "scalable"
    optional_paths,   \* the caller's list handed to generate()
    max_parameters,   \* scalable only; 0 stands for None / 0 (both falsy)
    paths,            \* the list _greedy_pairwise works on
    choice_groups,    \* sequence of path lists (dict values in key order)
    max_patterns,
    patterns,         \* list of TestPattern records
    pattern_id,
    uncovered_pairs,  \* basic generator
    covered_pairs,    \* scalable generator: the global covered set
    covered_count,    \* scalable generator
    total_pairs,
    coverage,         \* [num, den]: the float num/den; <<1, 1>> is 1.0
    best_pattern,     \* _find_best_pattern: best candidate drawn so far
    best_score,
    draws,            \* _find_best_pattern: candidates drawn so far
    stop_reason,      \* why the greedy loop was left (history variable)
    gen_pc,
    \* ---- SetCoverOptimizer ---------------------------------------------
    all_items,        \* the universe U handed to the constructor
    snippets,         \* list of candidate snippets [covered_paths, depth]
    target_coverage,  \* [num, den]: the float num/den
    max_files,
    uncovered,        \* solve_greedy local
    selected,         \* solve_greedy local
    iteration,        \* solve_greedy local
    selected_snippets,
    sc_stop,          \* why the selection loop was left (history variable)
    sc_pc,
    \* ---- schema traversals ---------------------------------------------
    schema_tree,             \* the parsed XSD: its nodes in document order
    max_depth,               \* max_recursion_depth / max_depth of every tool
    defined_element_paths,   \* SchemaAnalyzer
    defined_attribute_paths, \* SchemaAnalyzer
    analyzer_pc,             \* "new", "analyzed" or "RecursionError"
    frame_reentered,         \* an active (path, type, depth) frame was entered again
    optional_items,          \* OptionalElementExtractor
    choice_group_counter,    \* OptionalElementExtractor
    extractor_pc,            \* "new", "extracted" or "RecursionError"
    builder,                 \* "none", "XMLGenerator" or "PairwiseXMLBuilder"
    builder_args,            \* arguments of the call that built the XML
    xml_result,              \* "none", "element", "None" or "RecursionError"
    xml_elements,            \* element paths of the XML that was built
    xml_attributes,          \* attribute paths of the XML that was built
    xml_children,            \* names of the root element's children, in order
    \* ---- the module-level random generator ------------------------------
    random_seed,      \* the random_seed argument given to the constructors
    random_state,     \* [seed, pos]: last seed given, draws made since
    instances,        \* two generator instances: [pc, patterns, coverage]
    \* ---- value synthesis ------------------------------------------------
    enumerations,     \* enumeration values of the simpleType StatusType, in document order
    value_name,       \* name of the attribute or element that gets a value
    value_type,       \* its declared type, as written in the schema
    sample_value,     \* the value written
    value_by,         \* "none" or the method that produced sample_value
    drew_random,      \* the method called the random module
    \* ---- SchemaAnalyzer._cache_type_definitions --------------------------
    schema_files,      \* the files on disk: resolved path -> [parses, directives]
    type_cache,        \* names of the cached type definitions
    processed_schemas, \* the path strings added to self.processed_schemas
    warnings,          \* the schema_location of every warning printed (a set)
    parse_log,         \* the resolved path of every etree.parse call of the load
    loader_pc,         \* "new", "loaded" or "error"
    \* ---- CoverageReporter -----------------------------------------------
    defined_elements,   \* CoverageReporter.defined_elements
    defined_attributes, \* CoverageReporter.defined_attributes
    used_elements,      \* CoverageReporter.used_elements
    used_attributes,    \* CoverageReporter.used_attributes
    report,             \* the sets and numbers generate_report computed
    reporter_pc,        \* "new" or "reported"
    \* ---- PathVariableMapper ---------------------------------------------
    path_to_var,        \* PathVariableMapper.path_to_var: path -> name of its Bool
    var_to_path,        \* PathVariableMapper.var_to_path: variable name -> path
    returned_var,       \* name of the Bool the last get_or_create_var returned
    looked_up           \* <<var_name, result>> of the last get_path ("None" for None)

pwVars == <<generator, optional_paths, max_parameters, paths, choice_groups,
            max_patterns, patterns, pattern_id, uncovered_pairs, covered_pairs,
            covered_count, total_pairs, coverage, best_pattern, best_score, draws,
            stop_reason, gen_pc>>

scVars == <<all_items, snippets, target_coverage, max_files, uncovered, selected,
            iteration, selected_snippets, sc_stop, sc_pc>>

trVars == <<schema_tree, max_depth, defined_element_paths, defined_attribute_paths,
            analyzer_pc, frame_reentered, optional_items, choice_group_counter,
            extractor_pc, builder, builder_args, xml_result, xml_elements,
            xml_attributes, xml_children>>

sdVars == <<random_seed, random_state, instances>>

vlVars == <<enumerations, value_name, value_type, sample_value, value_by, drew_random>>

ldVars == <<schema_files, type_cache, processed_schemas, warnings, parse_log, loader_pc>>

rpVars == <<defined_elements, defined_attributes, used_elements, used_attributes, report, reporter_pc>>

mpVars == <<path_to_var, var_to_path, returned_var, looked_up>>

vars == <<pwVars, scVars, trVars, sdVars, vlVars, ldVars, rpVars, mpVars>>

\* what the pairwise generators, the optimizer and the schema tools never touch
notPwVars == <<scVars, trVars, sdVars, vlVars, ldVars, rpVars, mpVars>>
notScVars == <<pwVars, trVars, sdVars, vlVars, ldVars, rpVars, mpVars>>
notTrVars == <<pwVars, scVars, sdVars, vlVars, ldVars, rpVars, mpVars>>
notSdVars == <<pwVars, scVars, trVars, vlVars, ldVars, rpVars, mpVars>>
notVlVars == <<pwVars, scVars, trVars, sdVars, ldVars, rpVars, mpVars>>
notLdVars == <<pwVars, scVars, trVars, sdVars, vlVars, rpVars, mpVars>>
notRpVars == <<pwVars, scVars, trVars, sdVars, vlVars, ldVars, mpVars>>
notMpVars == <<pwVars, scVars, trVars, sdVars, vlVars, ldVars, rpVars>>

----------------------------------------------------------------------------
(* Bounds of the explored inputs *)

\* longest parameter list handed to generate()
MaxParams == 3
\* largest max_patterns argument
MaxPatternsArg == 4
\* candidate draws explored per greedy iteration (the code asks for 50, the
\* scalable generator for 30)
NumCandidates == 2

\* covered-set size above which the scalable generator scores by sampling
SampleThreshold == 100000
\* largest sample the scalable generator draws
SampleCap == 10000

PathNames == {"p1", "p2", "p3"}

Range(s) == {s[i] : i \in DOMAIN s}

SeqsUpTo(S, n) == UNION {[1..k -> S] : k \in 0..n}

\* position of a path name in name order
Rank(name) == CASE name = "p1" -> 1 [] name = "p2" -> 2 [] OTHER -> 3

\* parameter lists, repeated entries included, explored up to reordering
ParamLists ==
    {s \in SeqsUpTo(PathNames, MaxParams) :
        \A i, j \in DOMAIN s : i < j => Rank(s[i]) <= Rank(s[j])}

\* choice-group maps: no group, one group, two groups sharing a path, and a
\* group with a member that is no parameter
ChoiceGroupMaps ==
    {<<>>,
     <<(<<"p1", "p2">>)>>,
     <<(<<"p1", "p2", "p3">>)>>,
     <<(<<"p1", "p2">>), (<<"p2", "p3">>)>>,
     <<(<<"p1", "p2">>), (<<"p3", "p4">>)>>}

Shuffles(s) ==
    {t \in [DOMAIN s -> Range(s)] :
        \E f \in [DOMAIN s -> DOMAIN s] :
            /\ \A i, j \in DOMAIN s : f[i] = f[j] => i = j
            /\ \A i \in DOMAIN s : t[i] = s[f[i]]}

----------------------------------------------------------------------------
(* TestPattern / helpers shared by both generators *)

NoPattern == [pattern_id |-> -1, assignments |-> <<>>, covered_pairs |-> {}]

\* dict.get(path, False)
Get(assignments, path) ==
    IF path \in DOMAIN assignments THEN assignments[path] ELSE FALSE

\* itertools.combinations(paths, 2), as index pairs
Combinations(ps) == {c \in (DOMAIN ps) \X (DOMAIN ps) : c[1] < c[2]}

AreInSameChoiceGroup(path1, path2, groups) ==
    \E g \in DOMAIN groups :
        path1 \in Range(groups[g]) /\ path2 \in Range(groups[g])

\* the outcomes of _adjust_for_choice_constraints from group g onwards;
\* random.choice(true_paths) is any member of true_paths
RECURSIVE AdjustFrom(_, _, _)
AdjustFrom(adjusted, groups, g) ==
    IF g > Len(groups) THEN {adjusted}
    ELSE LET true_idx   == {i \in DOMAIN groups[g] : Get(adjusted, groups[g][i])}
             true_paths == {groups[g][i] : i \in true_idx}
         IN  IF Cardinality(true_idx) > 1
             THEN UNION {AdjustFrom([p \in DOMAIN adjusted |->
                                        IF p \in true_paths /\ p # chosen
                                        THEN FALSE ELSE adjusted[p]],
                                    groups, g + 1) : chosen \in true_paths}
             ELSE AdjustFrom(adjusted, groups, g + 1)

\* mutant: the group loop is left after its first pass
AdjustFirstGroupOnly(assignments, groups) ==
    AdjustFrom(assignments, IF Len(groups) = 0 THEN groups ELSE SubSeq(groups, 1, 1), 1)

AdjustForChoiceConstraints(assignments, groups) ==
    AdjustFrom(assignments, groups, 1)

\* {path: value for path in paths}
Uniform(ps, value) == [p \in Range(ps) |-> value]

\* the assignments random.choice([True, False]) can draw
RandomAssignments(ps) == [Range(ps) -> BOOLEAN]

Pair(ps, adjusted, c) ==
    <<ps[c[1]], Get(adjusted, ps[c[1]]), ps[c[2]], Get(adjusted, ps[c[2]])>>

----------------------------------------------------------------------------
(* PairwiseCoverageGenerator *)

\* mutant: every pair is enumerated as a pair of choice siblings
\* four value pairs for every pair of parameters, choice groups ignored
EnumerateAllPairsIgnoringGroups(ps, groups) ==
    UNION {{<<ps[c[1]], u, ps[c[2]], v>> : u, v \in BOOLEAN} : c \in Combinations(ps)}

EnumerateAllPairsAsSiblings(ps, groups) ==
    UNION {{<<ps[c[1]], TRUE, ps[c[2]], FALSE>>,
            <<ps[c[1]], FALSE, ps[c[2]], TRUE>>,
            <<ps[c[1]], FALSE, ps[c[2]], FALSE>>} : c \in Combinations(ps)}

EnumerateAllPairs(ps, groups) ==
    UNION {IF AreInSameChoiceGroup(ps[c[1]], ps[c[2]], groups)
           THEN {<<ps[c[1]], TRUE, ps[c[2]], FALSE>>,
                 <<ps[c[1]], FALSE, ps[c[2]], TRUE>>,
                 <<ps[c[1]], FALSE, ps[c[2]], FALSE>>}
           ELSE {<<ps[c[1]], TRUE, ps[c[2]], TRUE>>,
                 <<ps[c[1]], TRUE, ps[c[2]], FALSE>>,
                 <<ps[c[1]], FALSE, ps[c[2]], TRUE>>,
                 <<ps[c[1]], FALSE, ps[c[2]], FALSE>>} : c \in Combinations(ps)}

\* the patterns _create_pattern can return (one per outcome of the adjustment)
CreatePattern(id, ps, assignments, groups) ==
    {[pattern_id    |-> id,
      assignments   |-> adjusted,
      covered_pairs |-> {Pair(ps, adjusted, c) : c \in Combinations(ps)}] :
        adjusted \in AdjustForChoiceConstraints(assignments, groups)}

CandidatePatterns(id, ps, groups) ==
    UNION {CreatePattern(id, ps, a, groups) : a \in RandomAssignments(ps)}

\* the score _find_best_pattern gives a candidate
Score(pattern, unc) == Cardinality(pattern.covered_pairs \cap unc)

\* coverage = covered / total if total > 0 else 1.0
Ratio(covered, total) ==
    IF total > 0 THEN [num |-> covered, den |-> total] ELSE [num |-> 1, den |-> 1]

----------------------------------------------------------------------------
(* ScalablePairwiseCoverageGenerator *)

CountTotalPairs(ps, groups) ==
    3 * Cardinality({c \in Combinations(ps) :
                        AreInSameChoiceGroup(ps[c[1]], ps[c[2]], groups)})
    + 4 * Cardinality({c \in Combinations(ps) :
                        ~AreInSameChoiceGroup(ps[c[1]], ps[c[2]], groups)})

CalculateCoveredPairs(ps, assignments, groups) ==
    {Pair(ps, assignments, c) :
        c \in {d \in Combinations(ps) :
                 ~(/\ AreInSameChoiceGroup(ps[d[1]], ps[d[2]], groups)
                   /\ Get(assignments, ps[d[1]])
                   /\ Get(assignments, ps[d[2]]))}}

CreatePatternScalable(id, ps, assignments, groups) ==
    {[pattern_id    |-> id,
      assignments   |-> adjusted,
      covered_pairs |-> CalculateCoveredPairs(ps, adjusted, groups)] :
        adjusted \in AdjustForChoiceConstraints(assignments, groups)}

CandidatePatternsScalable(id, ps, groups) ==
    UNION {CreatePatternScalable(id, ps, a, groups) : a \in RandomAssignments(ps)}

Min(a, b) == IF a < b THEN a ELSE b

\* the scores _find_best_pattern_scalable can give a candidate: exact below
\* the threshold, extrapolated from a random sample above it
ScalableScores(pattern, covered) ==
    IF Cardinality(covered) > SampleThreshold
    THEN LET n           == Cardinality(pattern.covered_pairs)
             sample_size == Min(SampleCap, n)
         IN  {(Cardinality(sample \ covered) * n) \div sample_size :
                 sample \in {s \in SUBSET pattern.covered_pairs :
                                Cardinality(s) = sample_size}}
    ELSE {Cardinality(pattern.covered_pairs \ covered)}

\* max_parameters truncation of generate(): random.shuffle permutes the
\* list in place, then the first max_parameters entries are kept.
\* Result: the pairs <<list after the call, list worked on>>
Truncations(ps, maxp) ==
    IF maxp # 0 /\ Len(ps) > maxp
    THEN {<<shuffled, SubSeq(shuffled, 1, maxp)>> : shuffled \in Shuffles(ps)}
    ELSE {<<ps, ps>>}

\* the pattern with its pair set left in place
KeepPairs(pattern) == pattern

ClearPairs(pattern) == [pattern EXCEPT !.covered_pairs = {}]

----------------------------------------------------------------------------
(* Actions of the pairwise generators *)

\* the generator's own state right after construction
PwFresh ==
    /\ paths = <<>>
    /\ patterns = <<>>
    /\ pattern_id = 0
    /\ uncovered_pairs = {}
    /\ covered_pairs = {}
    /\ covered_count = 0
    /\ total_pairs = 0
    /\ coverage = [num |-> 0, den |-> 1]
    /\ best_pattern = NoPattern
    /\ best_score = 0
    /\ draws = 0
    /\ stop_reason = "none"
    /\ gen_pc = "call"

\* a generator that is never called
PwIdle ==
    /\ generator = "basic"
    /\ optional_paths = <<>>
    /\ max_parameters = 0
    /\ choice_groups = <<>>
    /\ max_patterns = 0
    /\ PwFresh

\* the optimizer's own state right after construction, solve_greedy not called
ScFresh ==
    /\ uncovered = {}
    /\ selected = <<>>
    /\ iteration = 0
    /\ selected_snippets = <<>>
    /\ sc_stop = "none"
    /\ sc_pc = "call"

\* an optimizer that is never called
ScIdle ==
    /\ all_items = {}
    /\ snippets = <<>>
    /\ target_coverage = [num |-> 0, den |-> 1]
    /\ max_files = 0
    /\ ScFresh

\* the schema tools' own state right after construction
TrFresh ==
    /\ defined_element_paths = {}
    /\ defined_attribute_paths = {}
    /\ analyzer_pc = "new"
    /\ frame_reentered = FALSE
    /\ optional_items = <<>>
    /\ choice_group_counter = 0
    /\ extractor_pc = "new"
    /\ builder = "none"
    /\ builder_args = <<>>
    /\ xml_result = "none"
    /\ xml_elements = {}
    /\ xml_attributes = {}
    /\ xml_children = <<>>

\* no schema is loaded
TrIdle ==
    /\ schema_tree = <<>>
    /\ max_depth = 0
    /\ TrFresh

\* the module generator before any constructor ran, no instance made
SdFresh ==
    /\ random_state = [seed |-> 0, pos |-> 0]
    /\ instances = [i \in {1, 2} |->
                       [pc |-> "none", patterns |-> <<>>, coverage |-> [num |-> 0, den |-> 1]]]

\* no seed is ever given
SdIdle ==
    /\ random_seed = 0
    /\ SdFresh

VlIdle ==
    /\ enumerations = <<>>
    /\ value_name = ""
    /\ value_type = ""
    /\ sample_value = ""
    /\ value_by = "none"
    /\ drew_random = FALSE

\* SchemaAnalyzer.__init__: empty cache, nothing processed
LdFresh ==
    /\ type_cache = {}
    /\ processed_schemas = {}
    /\ warnings = {}
    /\ parse_log = <<>>
    /\ loader_pc = "new"

LdIdle ==
    /\ schema_files = <<>>
    /\ LdFresh

\* no report generated yet
RpFresh ==
    /\ report = <<>>
    /\ reporter_pc = "new"

RpIdle ==
    /\ defined_elements = {}
    /\ defined_attributes = {}
    /\ used_elements = {}
    /\ used_attributes = {}
    /\ RpFresh

\* PathVariableMapper.__init__: both dictionaries empty, and no call made
MpIdle ==
    /\ path_to_var = <<>>
    /\ var_to_path = <<>>
    /\ returned_var = <<>>
    /\ looked_up = <<>>

PwInit ==
    /\ generator \in {"basic", "scalable"}
    /\ optional_paths \in ParamLists
    /\ max_parameters \in IF generator = "scalable" THEN {0, 2} ELSE {0}
    /\ choice_groups \in ChoiceGroupMaps
    /\ max_patterns \in 0..MaxPatternsArg
    /\ PwFresh
    /\ ScIdle
    /\ TrIdle
    /\ SdIdle
    /\ VlIdle
    /\ LdIdle
    /\ RpIdle
    /\ MpIdle

pwInputs == <<generator, max_parameters, choice_groups, max_patterns>>

\* generate -> _greedy_pairwise up to the greedy loop: enumerate the pairs and
\* add the all-True and the all-False pattern
GenerateBasic ==
    /\ gen_pc = "call" /\ generator = "basic"
    /\ paths' = optional_paths
    /\ \E pattern1 \in CreatePattern(0, optional_paths,
                                     Uniform(optional_paths, TRUE), choice_groups),
          pattern2 \in CreatePattern(1, optional_paths,
                                     Uniform(optional_paths, FALSE), choice_groups) :
          /\ patterns' = <<pattern1, pattern2>>
          /\ uncovered_pairs' = (EnumerateAllPairs(optional_paths, choice_groups)
                                    \ pattern1.covered_pairs) \ pattern2.covered_pairs
    /\ total_pairs' = Cardinality(EnumerateAllPairs(optional_paths, choice_groups))
    /\ pattern_id' = 2
    /\ gen_pc' = "loop"
    /\ UNCHANGED <<pwInputs, optional_paths, covered_pairs, covered_count, coverage,
                   best_pattern, best_score, draws, stop_reason>>
    /\ UNCHANGED notPwVars

\* while uncovered_pairs and len(patterns) < max_patterns
LoopConditionBasic == uncovered_pairs # {} /\ Len(patterns) < max_patterns

\* one pass of the candidate loop of _find_best_pattern
DrawCandidateBasic ==
    /\ gen_pc = "loop" /\ generator = "basic"
    /\ LoopConditionBasic
    /\ draws < NumCandidates
    /\ \E pattern \in CandidatePatterns(pattern_id, paths, choice_groups) :
          IF Score(pattern, uncovered_pairs) > best_score
          THEN /\ best_score' = Score(pattern, uncovered_pairs)
               /\ best_pattern' = pattern
          ELSE UNCHANGED <<best_score, best_pattern>>
    /\ draws' = draws + 1
    /\ UNCHANGED <<pwInputs, optional_paths, paths, patterns, pattern_id,
                   uncovered_pairs, covered_pairs, covered_count, total_pairs,
                   coverage, stop_reason, gen_pc>>
    /\ UNCHANGED notPwVars

\* _find_best_pattern has returned: the rest of the loop body of _greedy_pairwise
GreedyStepBasic ==
    /\ gen_pc = "loop" /\ generator = "basic"
    /\ LoopConditionBasic
    /\ draws = NumCandidates
    /\ IF best_pattern = NoPattern \/ Cardinality(best_pattern.covered_pairs) = 0
       THEN /\ stop_reason' = "no_gain"
            /\ gen_pc' = "exit"
            /\ UNCHANGED <<patterns, uncovered_pairs, pattern_id>>
       ELSE /\ patterns' = Append(patterns, best_pattern)
            /\ uncovered_pairs' = uncovered_pairs \ best_pattern.covered_pairs
            /\ pattern_id' = pattern_id + 1
            /\ UNCHANGED <<stop_reason, gen_pc>>
    /\ best_pattern' = NoPattern
    /\ best_score' = 0
    /\ draws' = 0
    /\ UNCHANGED <<pwInputs, optional_paths, paths, covered_pairs, covered_count,
                   total_pairs, coverage>>
    /\ UNCHANGED notPwVars

\* the loop is left (condition false or break): coverage is computed and the
\* CoveringArray returned
ReturnBasic ==
    /\ generator = "basic"
    /\ \/ gen_pc = "exit"
       \/ gen_pc = "loop" /\ ~LoopConditionBasic
    /\ stop_reason' = IF gen_pc = "exit" THEN stop_reason
                      ELSE IF uncovered_pairs = {} THEN "covered" ELSE "max_patterns"
    /\ coverage' = Ratio(total_pairs - Cardinality(uncovered_pairs), total_pairs)
    /\ gen_pc' = "done"
    /\ UNCHANGED <<pwInputs, optional_paths, paths, patterns, pattern_id,
                   uncovered_pairs, covered_pairs, covered_count, total_pairs,
                   best_pattern, best_score, draws>>
    /\ UNCHANGED notPwVars

\* generate -> _greedy_pairwise_scalable up to the greedy loop
GenerateScalable ==
    /\ gen_pc = "call" /\ generator = "scalable"
    /\ \E t \in Truncations(optional_paths, max_parameters) :
          /\ optional_paths' = t[1]
          /\ paths' = t[2]
          /\ total_pairs' = CountTotalPairs(t[2], choice_groups)
          /\ \E pattern1 \in CreatePatternScalable(0, t[2], Uniform(t[2], TRUE), choice_groups),
                pattern2 \in CreatePatternScalable(1, t[2], Uniform(t[2], FALSE), choice_groups) :
                /\ patterns' = <<ClearPairs(pattern1), ClearPairs(pattern2)>>
                /\ covered_count' = Cardinality(pattern1.covered_pairs)
                      + Cardinality(pattern2.covered_pairs \ pattern1.covered_pairs)
                /\ covered_pairs' = pattern1.covered_pairs \cup pattern2.covered_pairs
    /\ pattern_id' = 2
    /\ gen_pc' = "loop"
    /\ UNCHANGED <<pwInputs, uncovered_pairs, coverage, best_pattern, best_score,
                   draws, stop_reason>>
    /\ UNCHANGED notPwVars

\* while covered_count < total_pairs and len(patterns) < max_patterns
LoopConditionScalable == covered_count < total_pairs /\ Len(patterns) < max_patterns

\* one pass of the candidate loop of _find_best_pattern_scalable
DrawCandidateScalable ==
    /\ gen_pc = "loop" /\ generator = "scalable"
    /\ LoopConditionScalable
    /\ draws < NumCandidates
    /\ \E pattern \in CandidatePatternsScalable(pattern_id, paths, choice_groups) :
       \E score \in ScalableScores(pattern, covered_pairs) :
          IF score > best_score
          THEN /\ best_score' = score
               /\ best_pattern' = pattern
          ELSE UNCHANGED <<best_score, best_pattern>>
    /\ draws' = draws + 1
    /\ UNCHANGED <<pwInputs, optional_paths, paths, patterns, pattern_id,
                   uncovered_pairs, covered_pairs, covered_count, total_pairs,
                   coverage, stop_reason, gen_pc>>
    /\ UNCHANGED notPwVars

\* the rest of the loop body of _greedy_pairwise_scalable
GreedyStepScalable ==
    /\ gen_pc = "loop" /\ generator = "scalable"
    /\ LoopConditionScalable
    /\ draws = NumCandidates
    /\ LET new_pairs == best_pattern.covered_pairs \ covered_pairs
       IN  IF best_pattern = NoPattern \/ Cardinality(new_pairs) = 0
           THEN /\ stop_reason' = "no_gain"
                /\ gen_pc' = "exit"
                /\ UNCHANGED <<patterns, covered_pairs, covered_count, pattern_id>>
           ELSE /\ covered_count' = covered_count + Cardinality(new_pairs)
                /\ patterns' = Append(patterns, ClearPairs(best_pattern))
                /\ covered_pairs' = covered_pairs \cup best_pattern.covered_pairs
                /\ pattern_id' = pattern_id + 1
                /\ UNCHANGED <<stop_reason, gen_pc>>
    /\ best_pattern' = NoPattern
    /\ best_score' = 0
    /\ draws' = 0
    /\ UNCHANGED <<pwInputs, optional_paths, paths, uncovered_pairs, total_pairs,
                   coverage>>
    /\ UNCHANGED notPwVars

ReturnScalable ==
    /\ generator = "scalable"
    /\ \/ gen_pc = "exit"
       \/ gen_pc = "loop" /\ ~LoopConditionScalable
    /\ stop_reason' = IF gen_pc = "exit" THEN stop_reason
                      ELSE IF ~(covered_count < total_pairs) THEN "covered"
                      ELSE "max_patterns"
    /\ coverage' = Ratio(covered_count, total_pairs)
    /\ gen_pc' = "done"
    /\ UNCHANGED <<pwInputs, optional_paths, paths, patterns, pattern_id,
                   uncovered_pairs, covered_pairs, covered_count, total_pairs,
                   best_pattern, best_score, draws>>
    /\ UNCHANGED notPwVars

PwNext ==
    \/ GenerateBasic
    \/ DrawCandidateBasic
    \/ GreedyStepBasic
    \/ ReturnBasic
    \/ GenerateScalable
    \/ DrawCandidateScalable
    \/ GreedyStepScalable
    \/ ReturnScalable

SpecPairwise == PwInit /\ [][PwNext]_vars

----------------------------------------------------------------------------
(* Claims about the pairwise generators (checked under SpecPairwise) *)

TrueMembers(pattern, group) == {p \in Range(group) : Get(pattern.assignments, p)}

\* C1: in every pattern of the covering array - the two seed patterns and
\* every greedily added one - every choice group has at most one member path
\* assigned True, whatever the parameter list, the group map and the draws.
C1_ChoiceExclusion ==
    \A i \in DOMAIN patterns : \A g \in DOMAIN choice_groups :
        Cardinality(TrueMembers(patterns[i], choice_groups[g])) <= 1

\* C1 witness: a returned array with a greedily added pattern, for two groups
\* that share a path, all of whose members are parameters, and in which the
\* added pattern switches a group member on.
C1_Witness ==
    /\ gen_pc = "done"
    /\ Len(patterns) > 2
    /\ Len(choice_groups) = 2
    /\ Range(choice_groups[1]) \cap Range(choice_groups[2]) # {}
    /\ Range(choice_groups[1]) \cup Range(choice_groups[2]) \subseteq Range(paths)
    /\ TrueMembers(patterns[3], choice_groups[1]) # {}

\* every (p = u, q = v) of two distinct parameters outside a common choice
\* group is assigned by some returned pattern
AllPairsWitnessed ==
    \A p, q \in Range(paths) : \A u, v \in BOOLEAN :
        (p # q /\ ~AreInSameChoiceGroup(p, q, choice_groups)) =>
            \E i \in DOMAIN patterns :
                /\ Get(patterns[i].assignments, p) = u
                /\ Get(patterns[i].assignments, q) = v

CoverageBelowOne == coverage.num < coverage.den

\* C2 as stated: when generate returns, every pair of values of two
\* parameters outside a common choice group is witnessed by a pattern, unless
\* the generator halted at max_patterns, and then coverage < 1.0.
C2_PairwiseLawAsStated ==
    gen_pc = "done" =>
        /\ stop_reason # "max_patterns" => AllPairsWitnessed
        /\ stop_reason = "max_patterns" => CoverageBelowOne

\* C2 amended: when generate returns, every such pair is witnessed, unless the
\* generator halted at max_patterns or because the best drawn candidate
\* added no new pair; in both cases the reported coverage is below 1.0.
C2_PairwiseLaw ==
    gen_pc = "done" =>
        /\ stop_reason \notin {"max_patterns", "no_gain"} => AllPairsWitnessed
        /\ stop_reason \in {"max_patterns", "no_gain"} => CoverageBelowOne

\* C2 witness: the generator returned after adding a pattern and then
\* drawing only candidates without a new pair, leaving a pair unwitnessed.
C2_Witness ==
    /\ gen_pc = "done"
    /\ stop_reason = "no_gain"
    /\ Len(patterns) > 2
    /\ ~AllPairsWitnessed
    /\ CoverageBelowOne

\* C2 witness of the complete case: three parameters, all pairs witnessed.
C2_CompleteReached ==
    /\ gen_pc = "done"
    /\ stop_reason = "covered"
    /\ Cardinality(Range(paths)) = 3
    /\ Len(patterns) > 2

\* C8: the returned array holds at most max_patterns patterns, the two seed
\* patterns included, for every max_patterns >= 0.
C8_PatternCap == gen_pc = "done" => Len(patterns) <= max_patterns


----------------------------------------------------------------------------
(* SetCoverOptimizer.solve_greedy (exsisting_code/xml_generator.py) *)

\* longest candidate list handed to the optimizer
MaxSnippets == 2
\* largest max_files argument
MaxFiles == 2

\* universes of coverage items: empty, and three sizes
Universes == {{}, {"a", "b"}, {"a", "b", "c"}, {"a", "b", "c", "d", "e"}}

\* candidate snippets: what a snippet covers (possibly nothing, possibly a
\* path "x" outside the universe) and its depth
SnippetPool ==
    {[covered_paths |-> {},              depth |-> 1],
     [covered_paths |-> {"a"},           depth |-> 1],
     [covered_paths |-> {"b"},           depth |-> 1],
     [covered_paths |-> {"b"},           depth |-> 2],
     [covered_paths |-> {"a", "b"},      depth |-> 2],
     [covered_paths |-> {"c", "x"},      depth |-> 2],
     [covered_paths |-> {"x"},           depth |-> 1],
     [covered_paths |-> {"a", "b", "c"}, depth |-> 3],
     [covered_paths |-> {"a", "b", "c", "d"},      depth |-> 2],
     [covered_paths |-> {"a", "b", "c", "d", "e"}, depth |-> 5]}

\* target_coverage values 0.0, 0.5, 0.95 (the default) and 1.0.  For universes
\* of fewer than 20 items covered/|U| is compared with these floats exactly as
\* the fractions compare.
TargetCoverages ==
    {[num |-> 0, den |-> 1], [num |-> 1, den |-> 2],
     [num |-> 19, den |-> 20], [num |-> 1, den |-> 1]}

\* Pairs <<count1, depth1, count2, depth2>> with count, depth <= 8 whose scores
\* count * (1.0 / (1.0 + depth * 0.1)) are equal as fractions but for which the
\* first float is the larger one.
FloatTieBreaks == {<<4, 2, 5, 5>>, <<6, 8, 5, 5>>}

\* score > best_score, for score = count * (1.0 / (1.0 + depth * 0.1)); the
\* score is 10 * count / (10 + depth) up to float rounding
ScoreGreater(count, depth, best_count, best_depth) ==
    \/ count * (10 + best_depth) > best_count * (10 + depth)
    \/ /\ count * (10 + best_depth) = best_count * (10 + depth)
       /\ <<count, depth, best_count, best_depth>> \in FloatTieBreaks

\* for snippet in self.snippets: index of best_snippet after the candidates from
\* i on were looked at, 0 for None (best_score 0)
RECURSIVE BestSnippetFrom(_, _, _, _)
BestSnippetFrom(cands, unc, i, best) ==
    IF i > Len(cands) THEN best
    ELSE LET coverage_count == Cardinality(cands[i].covered_paths \cap unc)
             better ==
                 /\ coverage_count > 0
                 /\ \/ best = 0
                    \/ ScoreGreater(coverage_count, cands[i].depth,
                                    Cardinality(cands[best].covered_paths \cap unc),
                                    cands[best].depth)
         IN  BestSnippetFrom(cands, unc, i + 1, IF better THEN i ELSE best)

BestSnippet(cands, unc) == BestSnippetFrom(cands, unc, 1, 0)

\* uncovered -= best_snippet.covered_paths & uncovered, restarted from the
\* universe instead
UncoveredRecomputed(unc, snippet) == all_items \ snippet.covered_paths

\* uncovered -= best_snippet.covered_paths & uncovered
UncoveredAfter(unc, snippet) == unc \ (snippet.covered_paths \cap unc)

\* current_coverage >= target_coverage, always
TargetAlwaysReached(universe, unc, target) == TRUE

\* current_coverage >= target_coverage, with
\* current_coverage = (len(all_items) - len(uncovered)) / len(all_items)
TargetReached(universe, unc, target) ==
    (Cardinality(universe) - Cardinality(unc)) * target.den
        >= target.num * Cardinality(universe)


scInputs == <<all_items, snippets, target_coverage, max_files>>

ScInit ==
    /\ all_items \in Universes
    /\ snippets \in SeqsUpTo(SnippetPool, MaxSnippets)
    /\ target_coverage \in TargetCoverages
    /\ max_files \in 0..MaxFiles
    /\ ScFresh
    /\ PwIdle
    /\ TrIdle
    /\ SdIdle
    /\ VlIdle
    /\ LdIdle
    /\ RpIdle
    /\ MpIdle

\* solve_greedy up to the loop: uncovered = self.all_items.copy(), selected = []
SolveGreedy ==
    /\ sc_pc = "call"
    /\ uncovered' = all_items
    /\ selected' = <<>>
    /\ iteration' = 0
    /\ sc_pc' = "loop"
    /\ UNCHANGED <<scInputs, selected_snippets, sc_stop>>
    /\ UNCHANGED notScVars

\* while uncovered and len(selected) < max_files
LoopConditionSetCover == uncovered # {} /\ Len(selected) < max_files

\* one iteration that finds a best snippet: append it, shrink uncovered, and
\* leave the loop if the target coverage is reached
SelectBestSnippet ==
    /\ sc_pc = "loop" /\ LoopConditionSetCover
    /\ BestSnippet(snippets, uncovered) # 0
    /\ LET best_snippet == snippets[BestSnippet(snippets, uncovered)]
           remaining == UncoveredAfter(uncovered, best_snippet)
       IN  /\ selected' = Append(selected, best_snippet)
           /\ uncovered' = remaining
           /\ IF TargetReached(all_items, remaining, target_coverage)
              THEN sc_pc' = "exit" /\ sc_stop' = "target"
              ELSE sc_pc' = "loop" /\ sc_stop' = sc_stop
    /\ iteration' = iteration + 1
    /\ UNCHANGED <<scInputs, selected_snippets>>
    /\ UNCHANGED notScVars

\* one iteration in which no snippet covers an uncovered item:
\* best_snippet is None, break
NoBestSnippet ==
    /\ sc_pc = "loop" /\ LoopConditionSetCover
    /\ BestSnippet(snippets, uncovered) = 0
    /\ iteration' = iteration + 1
    /\ sc_pc' = "exit"
    /\ sc_stop' = "no_snippet"
    /\ UNCHANGED <<scInputs, uncovered, selected, selected_snippets>>
    /\ UNCHANGED notScVars

\* the while condition is false
LoopEndSetCover ==
    /\ sc_pc = "loop" /\ ~LoopConditionSetCover
    /\ sc_pc' = "exit"
    /\ sc_stop' = IF uncovered = {} THEN "covered" ELSE "max_files"
    /\ UNCHANGED <<scInputs, uncovered, selected, iteration, selected_snippets>>
    /\ UNCHANGED notScVars

\* after the loop: the final coverage is printed, dividing by len(all_items)
\* (ZeroDivisionError for an empty universe), then selected is stored and returned
ReturnSelected ==
    /\ sc_pc = "exit"
    /\ IF all_items = {}
       THEN sc_pc' = "ZeroDivisionError" /\ selected_snippets' = selected_snippets
       ELSE sc_pc' = "done" /\ selected_snippets' = selected
    /\ UNCHANGED <<scInputs, uncovered, selected, iteration, sc_stop>>
    /\ UNCHANGED notScVars

ScNext ==
    \/ SolveGreedy
    \/ SelectBestSnippet
    \/ NoBestSnippet
    \/ LoopEndSetCover
    \/ ReturnSelected

SpecSetCover == ScInit /\ [][ScNext]_vars

----------------------------------------------------------------------------
(* Claims about solve_greedy (checked under SpecSetCover) *)

\* the selected snippets jointly cover at least target_coverage of the universe
SelectionReachesTarget ==
    (Cardinality(all_items) - Cardinality(all_items \ UNION {s.covered_paths : s \in Range(selected_snippets)}))
        * target_coverage.den >= target_coverage.num * Cardinality(all_items)

\* some candidate still covers an item the selection leaves uncovered
SomeSnippetStillUseful ==
    \E i \in DOMAIN snippets :
        snippets[i].covered_paths
            \cap (all_items \ UNION {s.covered_paths : s \in Range(selected_snippets)}) # {}

\* C9 as stated: when solve_greedy returns, the selection covers at least the
\* fraction target_coverage of the universe or holds exactly max_files snippets.
C9_TargetOrMaxFilesAsStated ==
    sc_pc = "done" =>
        SelectionReachesTarget \/ Len(selected_snippets) = max_files

\* C9 amended: when solve_greedy returns, the selection covers at least the
\* fraction target_coverage of the universe, or holds exactly max_files
\* snippets, or no candidate snippet covers any item still uncovered.
C9_TargetOrMaxFilesOrExhausted ==
    sc_pc = "done" =>
        \/ SelectionReachesTarget
        \/ Len(selected_snippets) = max_files
        \/ ~SomeSnippetStillUseful

\* solve_greedy returned after a selection, below the target, with fewer than
\* max_files snippets, because no candidate covered anything more
C9_Witness ==
    /\ sc_pc = "done"
    /\ sc_stop = "no_snippet"
    /\ Len(selected_snippets) >= 1
    /\ Len(selected_snippets) < max_files
    /\ ~SelectionReachesTarget

\* solve_greedy returned with the target reached by fewer than max_files snippets
C9_TargetReachedEarly ==
    /\ sc_pc = "done"
    /\ sc_stop = "target"
    /\ Len(selected_snippets) < max_files
    /\ target_coverage.num > 0

\* C10: inside the selection loop every step leaves the universe alone and only
\* shrinks uncovered, so the cumulative coverage |U \ uncovered| / |U| never
\* decreases; in particular appending a snippet never decreases it.
C10_Monotone ==
    [][sc_pc = "loop" =>
          /\ all_items' = all_items
          /\ uncovered' \subseteq uncovered
          /\ Cardinality(all_items') - Cardinality(uncovered')
                >= Cardinality(all_items) - Cardinality(uncovered)]_vars

\* a second snippet was appended and it covered something new, with items of
\* the universe still uncovered
C10_Witness ==
    /\ sc_pc = "loop"
    /\ Len(selected) = 2
    /\ uncovered # {}
    /\ Cardinality(uncovered) + 2 <= Cardinality(all_items)

----------------------------------------------------------------------------
(* The parsed schema (etree.parse): its element nodes in document order.     *)
(* A node keeps its tag, the index of its parent (0 for the xs:schema root)  *)
(* and the attributes the tools read; "" is an absent attribute.             *)

N(tag, parent, name, type, ref, base, minOccurs, use) ==
    [tag |-> tag, parent |-> parent, name |-> name, type |-> type, ref |-> ref,
     base |-> base, minOccurs |-> minOccurs, use |-> use]

\*    <xs:element name="R" type="T"/>
\*    <xs:complexType name="T">
\*     <xs:sequence>
\*      <xs:element name="Sub" type="T" minOccurs="0"/>
\*     </xs:sequence>
\*     <xs:attribute name="id" use="required"/>
\*    </xs:complexType>
RecursiveSchema ==
    <<N("schema", 0, "", "", "", "", "", ""),
      N("element", 1, "R", "T", "", "", "", ""),
      N("complexType", 1, "T", "", "", "", "", ""),
      N("sequence", 3, "", "", "", "", "", ""),
      N("element", 4, "Sub", "T", "", "", "0", ""),
      N("attribute", 3, "id", "", "", "", "", "required")>>

\*    <xs:element name="R" type="TA"/>
\*    <xs:complexType name="TA">
\*     <xs:sequence><xs:element name="A" type="TB"/></xs:sequence>
\*    </xs:complexType>
\*    <xs:complexType name="TB">
\*     <xs:sequence><xs:element name="B" type="TC"/></xs:sequence>
\*    </xs:complexType>
\*    <xs:complexType name="TC">
\*     <xs:sequence><xs:element name="C" type="TD"/></xs:sequence>
\*    </xs:complexType>
\*    <xs:complexType name="TD">
\*     <xs:sequence><xs:element name="D" type="TE"/></xs:sequence>
\*    </xs:complexType>
\*    <xs:complexType name="TE">
\*     <xs:sequence><xs:element name="E" type="xs:string"/></xs:sequence>
\*    </xs:complexType>
ChainSchema ==
    <<N("schema", 0, "", "", "", "", "", ""),
      N("element", 1, "R", "TA", "", "", "", ""),
      N("complexType", 1, "TA", "", "", "", "", ""),
      N("sequence", 3, "", "", "", "", "", ""),
      N("element", 4, "A", "TB", "", "", "", ""),
      N("complexType", 1, "TB", "", "", "", "", ""),
      N("sequence", 6, "", "", "", "", "", ""),
      N("element", 7, "B", "TC", "", "", "", ""),
      N("complexType", 1, "TC", "", "", "", "", ""),
      N("sequence", 9, "", "", "", "", "", ""),
      N("element", 10, "C", "TD", "", "", "", ""),
      N("complexType", 1, "TD", "", "", "", "", ""),
      N("sequence", 12, "", "", "", "", "", ""),
      N("element", 13, "D", "TE", "", "", "", ""),
      N("complexType", 1, "TE", "", "", "", "", ""),
      N("sequence", 15, "", "", "", "", "", ""),
      N("element", 16, "E", "xs:string", "", "", "", "")>>

\*    <xs:element name="R" type="Derived"/>
\*    <xs:complexType name="Base">
\*     <xs:sequence><xs:element name="Y" type="xs:string"/></xs:sequence>
\*     <xs:attribute name="b" use="required"/>
\*    </xs:complexType>
\*    <xs:complexType name="Derived">
\*     <xs:complexContent>
\*      <xs:extension base="Base">
\*       <xs:sequence><xs:element name="X" type="xs:string" minOccurs="0"/></xs:sequence>
\*       <xs:attribute name="d"/>
\*      </xs:extension>
\*     </xs:complexContent>
\*    </xs:complexType>
ExtensionSchema ==
    <<N("schema", 0, "", "", "", "", "", ""),
      N("element", 1, "R", "Derived", "", "", "", ""),
      N("complexType", 1, "Base", "", "", "", "", ""),
      N("sequence", 3, "", "", "", "", "", ""),
      N("element", 4, "Y", "xs:string", "", "", "", ""),
      N("attribute", 3, "b", "", "", "", "", "required"),
      N("complexType", 1, "Derived", "", "", "", "", ""),
      N("complexContent", 7, "", "", "", "", "", ""),
      N("extension", 8, "", "", "", "Base", "", ""),
      N("sequence", 9, "", "", "", "", "", ""),
      N("element", 10, "X", "xs:string", "", "", "0", ""),
      N("attribute", 9, "d", "", "", "", "", "")>>

\*    <xs:element name="R" type="A"/>
\*    <xs:complexType name="A">
\*     <xs:complexContent>
\*      <xs:extension base="B"><xs:attribute name="a"/></xs:extension>
\*     </xs:complexContent>
\*    </xs:complexType>
\*    <xs:complexType name="B">
\*     <xs:complexContent>
\*      <xs:extension base="A"><xs:attribute name="b"/></xs:extension>
\*     </xs:complexContent>
\*    </xs:complexType>
ExtensionCycleSchema ==
    <<N("schema", 0, "", "", "", "", "", ""),
      N("element", 1, "R", "A", "", "", "", ""),
      N("complexType", 1, "A", "", "", "", "", ""),
      N("complexContent", 3, "", "", "", "", "", ""),
      N("extension", 4, "", "", "", "B", "", ""),
      N("attribute", 5, "a", "", "", "", "", ""),
      N("complexType", 1, "B", "", "", "", "", ""),
      N("complexContent", 7, "", "", "", "", "", ""),
      N("extension", 8, "", "", "", "A", "", ""),
      N("attribute", 9, "b", "", "", "", "", "")>>

\*    <xs:element name="R" type="T"/>
\*    <xs:complexType name="T">
\*     <xs:sequence>
\*      <xs:element name="H" type="xs:string"/>
\*      <xs:choice>
\*       <xs:element name="A" type="xs:string"/>
\*       <xs:element name="B" type="xs:string"/>
\*      </xs:choice>
\*     </xs:sequence>
\*     <xs:attribute name="o"/>
\*    </xs:complexType>
ChoiceSchema ==
    <<N("schema", 0, "", "", "", "", "", ""),
      N("element", 1, "R", "T", "", "", "", ""),
      N("complexType", 1, "T", "", "", "", "", ""),
      N("sequence", 3, "", "", "", "", "", ""),
      N("element", 4, "H", "xs:string", "", "", "", ""),
      N("choice", 4, "", "", "", "", "", ""),
      N("element", 6, "A", "xs:string", "", "", "", ""),
      N("element", 6, "B", "xs:string", "", "", "", ""),
      N("attribute", 3, "o", "", "", "", "", "")>>

\*    <xs:element name="R" type="tns:T"/>
\*    <xs:element name="Item" type="tns:ItemType"/>
\*    <xs:complexType name="T">
\*     <xs:sequence><xs:element ref="tns:Item" minOccurs="0"/></xs:sequence>
\*    </xs:complexType>
\*    <xs:complexType name="ItemType">
\*     <xs:sequence><xs:element ref="tns:Item" minOccurs="0"/></xs:sequence>
\*     <xs:attribute name="k" use="required"/>
\*    </xs:complexType>
RefSchema ==
    <<N("schema", 0, "", "", "", "", "", ""),
      N("element", 1, "R", "tns:T", "", "", "", ""),
      N("element", 1, "Item", "tns:ItemType", "", "", "", ""),
      N("complexType", 1, "T", "", "", "", "", ""),
      N("sequence", 4, "", "", "", "", "", ""),
      N("element", 5, "", "", "tns:Item", "", "0", ""),
      N("complexType", 1, "ItemType", "", "", "", "", ""),
      N("sequence", 7, "", "", "", "", "", ""),
      N("element", 8, "", "", "tns:Item", "", "0", ""),
      N("attribute", 7, "k", "", "", "", "", "required")>>

\*    <xs:element name="R" type="T"/>
\*    <xs:complexType name="T">
\*     <xs:sequence>
\*      <xs:element name="Foo">
\*       <xs:complexType>
\*        <xs:sequence><xs:element name="Bar" type="xs:string"/></xs:sequence>
\*        <xs:attribute name="f"/>
\*       </xs:complexType>
\*      </xs:element>
\*     </xs:sequence>
\*    </xs:complexType>
InlineSchema ==
    <<N("schema", 0, "", "", "", "", "", ""),
      N("element", 1, "R", "T", "", "", "", ""),
      N("complexType", 1, "T", "", "", "", "", ""),
      N("sequence", 3, "", "", "", "", "", ""),
      N("element", 4, "Foo", "", "", "", "", ""),
      N("complexType", 5, "", "", "", "", "", ""),
      N("sequence", 6, "", "", "", "", "", ""),
      N("element", 7, "Bar", "xs:string", "", "", "", ""),
      N("attribute", 6, "f", "", "", "", "", "")>>

\*    <xs:element name="R" type="T"/>
\*    <xs:complexType name="T">
\*     <xs:sequence>
\*      <xs:element name="Item" type="P"/>
\*      <xs:element name="Box" type="BT"/>
\*     </xs:sequence>
\*    </xs:complexType>
\*    <xs:complexType name="P">
\*     <xs:sequence><xs:element name="U" type="xs:string"/></xs:sequence>
\*    </xs:complexType>
\*    <xs:complexType name="BT">
\*     <xs:sequence><xs:element name="Item" type="Q"/></xs:sequence>
\*    </xs:complexType>
\*    <xs:complexType name="Q">
\*     <xs:sequence><xs:element name="V" type="xs:string"/></xs:sequence>
\*    </xs:complexType>
SameNameSchema ==
    <<N("schema", 0, "", "", "", "", "", ""),
      N("element", 1, "R", "T", "", "", "", ""),
      N("complexType", 1, "T", "", "", "", "", ""),
      N("sequence", 3, "", "", "", "", "", ""),
      N("element", 4, "Item", "P", "", "", "", ""),
      N("element", 4, "Box", "BT", "", "", "", ""),
      N("complexType", 1, "P", "", "", "", "", ""),
      N("sequence", 7, "", "", "", "", "", ""),
      N("element", 8, "U", "xs:string", "", "", "", ""),
      N("complexType", 1, "BT", "", "", "", "", ""),
      N("sequence", 10, "", "", "", "", "", ""),
      N("element", 11, "Item", "Q", "", "", "", ""),
      N("complexType", 1, "Q", "", "", "", "", ""),
      N("sequence", 13, "", "", "", "", "", ""),
      N("element", 14, "V", "xs:string", "", "", "", "")>>

\*    <xs:element name="R" type="T"/>
\*    <xs:complexType name="T">
\*     <xs:sequence>
\*      <xs:element name="H" type="xs:string"/>
\*      <xs:element name="Signature" type="ds:SignatureType" minOccurs="0"/>
\*     </xs:sequence>
\*    </xs:complexType>
SignedSchema ==
    <<N("schema", 0, "", "", "", "", "", ""),
      N("element", 1, "R", "T", "", "", "", ""),
      N("complexType", 1, "T", "", "", "", "", ""),
      N("sequence", 3, "", "", "", "", "", ""),
      N("element", 4, "H", "xs:string", "", "", "", ""),
      N("element", 4, "Signature", "ds:SignatureType", "", "", "0", "")>>

\*    <xs:element name="R" type="T"/>
\*    <xs:element name="Item" type="xs:string"/>
\*    <xs:complexType name="T">
\*     <xs:sequence>
\*      <xs:element name="H" type="xs:string" minOccurs="0"/>
\*      <xs:element ref="tns:Item" minOccurs="0"/>
\*     </xs:sequence>
\*    </xs:complexType>
OptRefSchema ==
    <<N("schema", 0, "", "", "", "", "", ""),
      N("element", 1, "R", "T", "", "", "", ""),
      N("element", 1, "Item", "xs:string", "", "", "", ""),
      N("complexType", 1, "T", "", "", "", "", ""),
      N("sequence", 4, "", "", "", "", "", ""),
      N("element", 5, "H", "xs:string", "", "", "0", ""),
      N("element", 5, "", "", "tns:Item", "", "0", "")>>

\*    <xs:element name="R" type="T"/>
\*    <xs:complexType name="T">
\*     <xs:sequence>
\*      <xs:choice>
\*       <xs:element name="P" type="xs:string"/>
\*       <xs:element name="Q" type="xs:string"/>
\*      </xs:choice>
\*      <xs:choice>
\*       <xs:element name="U" type="xs:string"/>
\*       <xs:element name="V" type="xs:string"/>
\*      </xs:choice>
\*     </xs:sequence>
\*    </xs:complexType>
TwoChoiceSchema ==
    <<N("schema", 0, "", "", "", "", "", ""),
      N("element", 1, "R", "T", "", "", "", ""),
      N("complexType", 1, "T", "", "", "", "", ""),
      N("sequence", 3, "", "", "", "", "", ""),
      N("choice", 4, "", "", "", "", "", ""),
      N("element", 5, "P", "xs:string", "", "", "", ""),
      N("element", 5, "Q", "xs:string", "", "", "", ""),
      N("choice", 4, "", "", "", "", "", ""),
      N("element", 8, "U", "xs:string", "", "", "", ""),
      N("element", 8, "V", "xs:string", "", "", "", "")>>

Schemas ==
    {RecursiveSchema, ChainSchema, ExtensionSchema, ExtensionCycleSchema,
     ChoiceSchema, RefSchema, InlineSchema, SameNameSchema, SignedSchema,
     OptRefSchema, TwoChoiceSchema}

\* largest max_recursion_depth / max_depth argument
MaxDepthArg == 3
\* generate_snippets: max_gen_depth = min(self.max_depth, 5)
DefaultGenDepthCap == 5
\* generate_snippets: choice_index runs over 0, 1, 2
MaxChoiceIndex == 2

\* str.split(':') for the names that occur in the schemas
SplitColon(name) ==
    CASE name = "xs:string"        -> <<"xs", "string">>
      [] name = "tns:T"            -> <<"tns", "T">>
      [] name = "tns:Item"         -> <<"tns", "Item">>
      [] name = "tns:ItemType"     -> <<"tns", "ItemType">>
      [] name = "ds:SignatureType" -> <<"ds", "SignatureType">>
      [] OTHER                     -> <<name>>

\* ':' in name
HasColon(name) == Len(SplitColon(name)) > 1

\* name.startswith(prefix + ':')
StartsWith(name, prefix) == HasColon(name) /\ SplitColon(name)[1] = prefix

\* SchemaAnalyzer._remove_ns_prefix; also name.split(':', 1)[1] and
\* name.split(':')[-1] of the other tools
RemoveNsPrefix(name) == IF HasColon(name) THEN SplitColon(name)[2] ELSE name

\* int(elem.get('minOccurs', '1'))
MinOccurs(node) ==
    CASE node.minOccurs = ""  -> 1
      [] node.minOccurs = "0" -> 0
      [] node.minOccurs = "1" -> 1
      [] OTHER                -> 2

\* attr.get('use', 'optional')
Use(node) == IF node.use = "" THEN "optional" ELSE node.use

RECURSIVE Ancestors(_, _)
Ancestors(tree, n) ==
    IF tree[n].parent = 0 THEN {}
    ELSE {tree[n].parent} \cup Ancestors(tree, tree[n].parent)

\* node.findall('.//xs:tag')
Descendants(tree, n, tag) ==
    {m \in DOMAIN tree : tree[m].tag = tag /\ n \in Ancestors(tree, m)}

\* node.findall('./xs:tag')
Children(tree, n, tag) ==
    {m \in DOMAIN tree : tree[m].tag = tag /\ tree[m].parent = n}

\* node.find(...): the first match in document order, 0 for None
First(ids) == IF ids = {} THEN 0 ELSE CHOOSE m \in ids : \A k \in ids : m <= k

\* the last match in document order, 0 for None
Last(ids) == IF ids = {} THEN 0 ELSE CHOOSE m \in ids : \A k \in ids : k <= m

\* the matches as a list in document order
RECURSIVE InOrder(_)
InOrder(ids) ==
    IF ids = {} THEN <<>> ELSE <<First(ids)>> \o InOrder(ids \ {First(ids)})

\* the lists seqs[1], seqs[2], ... joined
RECURSIVE Flatten(_)
Flatten(seqs) == IF seqs = <<>> THEN <<>> ELSE Head(seqs) \o Flatten(Tail(seqs))

\* findall('.//xs:sequence') + findall('.//xs:choice') + findall('.//xs:all')
Containers(tree, n) ==
    Descendants(tree, n, "sequence") \cup Descendants(tree, n, "choice")
        \cup Descendants(tree, n, "all")

\* SchemaAnalyzer._cache_schema_types, then type_cache.get(name): the last
\* named simpleType, else the last named complexType, else 0 for None
TypeCacheGet(tree, name) ==
    LET simple  == {m \in Descendants(tree, 1, "simpleType") : tree[m].name = name}
        complex == {m \in Descendants(tree, 1, "complexType") : tree[m].name = name}
    IN  IF name = "" THEN 0
        ELSE IF simple # {} THEN Last(simple) ELSE Last(complex)

\* xpath('//xs:element[@name="..."]'): every element declaration of that name
ElementsNamed(tree, name) ==
    {m \in Descendants(tree, 1, "element") : tree[m].name = name /\ name # ""}

\* the elements declared directly under xs:schema
RootElements(tree) == {m \in Children(tree, 1, "element") : tree[m].name # ""}

\* the types the analyzer does not descend into (xsd_coverage.py:322-332)
BuiltinTypes ==
    {"string", "integer", "date", "dateTime", "boolean", "decimal", "float",
     "double", "time", "gYear", "gYearMonth", "gMonth", "gMonthDay", "gDay",
     "hexBinary", "base64Binary", "anyURI", "QName", "NOTATION",
     "normalizedString", "token", "language", "NMTOKEN", "NMTOKENS", "Name",
     "NCName", "ID", "IDREF", "IDREFS", "ENTITY", "ENTITIES", "long", "int",
     "short", "byte", "nonNegativeInteger", "positiveInteger", "unsignedLong",
     "unsignedInt", "unsignedShort", "unsignedByte", "nonPositiveInteger",
     "negativeInteger"}

\* the shorter list of _process_inline_type and of XMLGenerator
SampleTypes ==
    {"string", "integer", "date", "dateTime", "boolean", "decimal", "float",
     "double"}

\* a path string: "/a/b" is ElemPath(<<"a", "b">>), "/a/b@x" is AttrPath(.., "x")
ElemPath(p) == [elem |-> p, attr |-> ""]
AttrPath(p, a) == [elem |-> p, attr |-> a]

\* What a traversal has collected.  A routine that is called again with the
\* arguments of a call of it that is still active reads nothing that has
\* changed in between, so it recurses without end and Python raises
\* RecursionError: error records that, reentered that the re-entered frame was
\* an active (path, type, depth) frame of the analyzer.
NoPaths == [elements |-> {}, attributes |-> {}, error |-> FALSE, reentered |-> FALSE]
StackOverflow == [NoPaths EXCEPT !.error = TRUE]

Join(results) ==
    [elements   |-> UNION {r.elements : r \in results},
     attributes |-> UNION {r.attributes : r \in results},
     error      |-> \E r \in results : r.error,
     reentered  |-> \E r \in results : r.reentered]

----------------------------------------------------------------------------
(* SchemaAnalyzer (exsisting_code/xsd_coverage.py) *)

\* the paths "current_path@name" of the attribute nodes attrs
AttributePaths(tree, attrs, current_path) ==
    [NoPaths EXCEPT !.attributes =
        {AttrPath(current_path, tree[a].name) : a \in {b \in attrs : tree[b].name # ""}}]

\* if tracking_key in self.processing_types, the guard left out
TrackingKeyNeverActive(tracking_key, processing_types) == FALSE

\* if tracking_key in self.processing_types
TrackingKeyActive(tracking_key, processing_types) == tracking_key \in processing_types

RECURSIVE ProcessType(_, _, _, _, _, _)
RECURSIVE ProcessInlineType(_, _, _, _, _, _)

\* _process_type: the paths it adds; processing_types holds the active frames
ProcessType(tree, type_name, current_path, depth, maxd, processing_types) ==
    IF depth > maxd THEN NoPaths
    ELSE
    LET clean_type_name == RemoveNsPrefix(type_name)
        tracking_key == <<current_path, clean_type_name, depth>>
        active == processing_types \cup {tracking_key}
        type_def == TypeCacheGet(tree, clean_type_name)
        Extension(ext) ==
            Join({IF tree[ext].base # ""
                  THEN ProcessType(tree, tree[ext].base, current_path, depth, maxd,
                                   active)
                  ELSE NoPaths,
                  AttributePaths(tree, Children(tree, ext, "attribute"), current_path)})
        Element(elem) ==
            IF tree[elem].name # ""
            THEN LET child_path == Append(current_path, tree[elem].name)
                     inline_complex_type == First(Children(tree, elem, "complexType"))
                 IN  Join({[NoPaths EXCEPT !.elements = {ElemPath(child_path)}],
                           IF inline_complex_type # 0
                           THEN ProcessInlineType(tree, inline_complex_type, child_path,
                                                  depth + 1, maxd, active)
                           ELSE IF /\ tree[elem].type # ""
                                   /\ RemoveNsPrefix(tree[elem].type) \notin BuiltinTypes
                           THEN ProcessType(tree, tree[elem].type, child_path,
                                            depth + 1, maxd, active)
                           ELSE NoPaths})
            ELSE IF tree[elem].ref # ""
            THEN LET ref_name == RemoveNsPrefix(tree[elem].ref)
                     child_path == Append(current_path, ref_name)
                 IN  Join({[NoPaths EXCEPT !.elements = {ElemPath(child_path)}]}
                          \cup {ProcessType(tree, tree[ref_elem].type, child_path,
                                            depth + 1, maxd, active) :
                                ref_elem \in {e \in ElementsNamed(tree, ref_name) :
                                                 tree[e].type # ""}})
            ELSE NoPaths
    IN  IF TrackingKeyActive(tracking_key, processing_types) THEN NoPaths
        ELSE IF tracking_key \in processing_types
        THEN [StackOverflow EXCEPT !.reentered = TRUE]
        ELSE IF type_def = 0 THEN NoPaths
        ELSE Join({AttributePaths(tree, Children(tree, type_def, "attribute"),
                                  current_path)}
                  \cup {Extension(ext) : ext \in Descendants(tree, type_def, "extension")}
                  \cup {Element(elem) :
                           elem \in UNION {Children(tree, container, "element") :
                                              container \in Containers(tree, type_def)}})

\* _process_inline_type
ProcessInlineType(tree, type_elem, current_path, depth, maxd, processing_types) ==
    IF depth > maxd THEN NoPaths
    ELSE
    LET Element(elem) ==
            IF tree[elem].name # ""
            THEN LET child_path == Append(current_path, tree[elem].name)
                     nested_complex_type == First(Children(tree, elem, "complexType"))
                 IN  Join({[NoPaths EXCEPT !.elements = {ElemPath(child_path)}],
                           IF nested_complex_type # 0
                           THEN ProcessInlineType(tree, nested_complex_type, child_path,
                                                  depth + 1, maxd, processing_types)
                           ELSE IF /\ tree[elem].type # ""
                                   /\ RemoveNsPrefix(tree[elem].type) \notin SampleTypes
                           THEN ProcessType(tree, tree[elem].type, child_path,
                                            depth + 1, maxd, processing_types)
                           ELSE NoPaths})
            ELSE NoPaths
    IN  Join({AttributePaths(tree, Children(tree, type_elem, "attribute"), current_path)}
             \cup {Element(elem) :
                      elem \in UNION {Children(tree, container, "element") :
                                         container \in Containers(tree, type_elem)}})

\* analyze with the root element's own path left out
AnalyzeSchemaBelowRoots(tree, maxd) ==
    Join({NoPaths}
         \cup {IF tree[elem].type # ""
               THEN ProcessType(tree, tree[elem].type,
                                <<RemoveNsPrefix(tree[elem].name)>>, 0, maxd, {})
               ELSE NoPaths :
               elem \in RootElements(tree)})

\* analyze: every root element and the paths below it
AnalyzeSchema(tree, maxd) ==
    Join({NoPaths}
         \cup {LET path == <<RemoveNsPrefix(tree[elem].name)>>
               IN  Join({[NoPaths EXCEPT !.elements = {ElemPath(path)}],
                         IF tree[elem].type # ""
                         THEN ProcessType(tree, tree[elem].type, path, 0, maxd, {})
                         ELSE NoPaths}) :
               elem \in RootElements(tree)})

----------------------------------------------------------------------------
(* XMLGenerator (exsisting_code/xml_generator.py): the element and attribute *)
(* paths of the XML it builds, which are also the snippet's covered_paths    *)

\* the k-th (from 0) node of ids in document order
Nth(ids, k) == InOrder(ids)[k + 1]

\* elements = container.findall('./xsd:element'); for a choice only
\* elements[choice_index % len(elements)]
SelectedElements(tree, container, choice_index) ==
    LET elements == Children(tree, container, "element")
    IN  IF tree[container].tag = "choice" /\ elements # {}
        THEN {Nth(elements, choice_index % Cardinality(elements))}
        ELSE elements

\* the attributes that are set: use = 'required' or include_optional
AttributesSet(tree, attrs, elem_path, include_optional) ==
    [NoPaths EXCEPT !.attributes =
        {AttrPath(elem_path, tree[a].name) :
            a \in {b \in attrs : /\ tree[b].name # ""
                                 /\ (Use(tree[b]) = "required" \/ include_optional)}}]

\* _add_attributes: the type's own attributes and those inside its extensions
AddAttributes(tree, elem_path, type_def, include_optional) ==
    AttributesSet(tree,
                  Children(tree, type_def, "attribute")
                      \cup UNION {Children(tree, ext, "attribute") :
                                     ext \in Descendants(tree, type_def, "extension")},
                  elem_path, include_optional)

RECURSIVE BuildElement(_, _, _, _, _, _, _)
RECURSIVE BuildInlineType(_, _, _, _, _, _, _)

\* _build_element
BuildElement(tree, parent_path, type_name, current_depth, maxd, include_optional, choice_index) ==
    IF current_depth > maxd THEN NoPaths
    ELSE
    LET type_def == TypeCacheGet(tree, RemoveNsPrefix(type_name))
        Child(elem_def) ==
            IF MinOccurs(tree[elem_def]) = 0 /\ ~include_optional THEN NoPaths
            ELSE IF tree[elem_def].name # ""
            THEN LET child_path == Append(parent_path, tree[elem_def].name)
                     inline_complex_type == First(Children(tree, elem_def, "complexType"))
                     clean_elem_type == RemoveNsPrefix(tree[elem_def].type)
                 IN  Join({[NoPaths EXCEPT !.elements = {ElemPath(child_path)}],
                           IF inline_complex_type # 0
                           THEN BuildInlineType(tree, child_path, inline_complex_type,
                                                current_depth + 1, maxd,
                                                include_optional, choice_index)
                           ELSE IF /\ tree[elem_def].type # ""
                                   /\ clean_elem_type \notin SampleTypes
                                   /\ clean_elem_type \notin {"ID", "NCName", "token"}
                           THEN BuildElement(tree, child_path, tree[elem_def].type,
                                             current_depth + 1, maxd, include_optional,
                                             choice_index)
                           ELSE NoPaths})
            ELSE IF tree[elem_def].ref # ""
            THEN LET ref_name == RemoveNsPrefix(tree[elem_def].ref)
                     child_path == Append(parent_path, ref_name)
                     ref_elem == First({e \in ElementsNamed(tree, ref_name) :
                                           tree[e].type # ""})
                 IN  Join({[NoPaths EXCEPT !.elements = {ElemPath(child_path)}],
                           IF ref_elem # 0
                           THEN BuildElement(tree, child_path, tree[ref_elem].type,
                                             current_depth + 1, maxd, include_optional,
                                             choice_index)
                           ELSE NoPaths})
            ELSE NoPaths
    IN  IF type_def = 0 THEN NoPaths
        ELSE Join({AddAttributes(tree, parent_path, type_def, include_optional)}
                  \cup {Child(elem_def) :
                           elem_def \in UNION {SelectedElements(tree, container, choice_index) :
                                                  container \in Containers(tree, type_def)}})

\* _build_inline_type
BuildInlineType(tree, parent_path, type_elem, current_depth, maxd, include_optional, choice_index) ==
    IF current_depth > maxd THEN NoPaths
    ELSE
    LET Child(elem_def) ==
            IF MinOccurs(tree[elem_def]) = 0 /\ ~include_optional THEN NoPaths
            ELSE IF tree[elem_def].name # ""
            THEN LET child_path == Append(parent_path, tree[elem_def].name)
                     nested_complex == First(Children(tree, elem_def, "complexType"))
                 IN  Join({[NoPaths EXCEPT !.elements = {ElemPath(child_path)}],
                           IF nested_complex # 0
                           THEN BuildInlineType(tree, child_path, nested_complex,
                                                current_depth + 1, maxd,
                                                include_optional, choice_index)
                           ELSE IF /\ tree[elem_def].type # ""
                                   /\ RemoveNsPrefix(tree[elem_def].type) \notin SampleTypes
                           THEN BuildElement(tree, child_path, tree[elem_def].type,
                                             current_depth + 1, maxd, include_optional,
                                             choice_index)
                           ELSE NoPaths})
            ELSE NoPaths
    IN  Join({AttributesSet(tree, Children(tree, type_elem, "attribute"), parent_path,
                            include_optional)}
             \cup {Child(elem_def) :
                      elem_def \in UNION {SelectedElements(tree, container, choice_index) :
                                             container \in Containers(tree, type_elem)}})

\* _build_element: the names of the elements it appends to parent_elem, in
\* the order of the appends: the sequences below the type, then the choices,
\* then the alls, each in document order
ChildrenBuilt(tree, type_name, current_depth, maxd, include_optional, choice_index) ==
    LET type_def == TypeCacheGet(tree, RemoveNsPrefix(type_name))
        containers == InOrder(Descendants(tree, type_def, "sequence"))
                          \o InOrder(Descendants(tree, type_def, "choice"))
                          \o InOrder(Descendants(tree, type_def, "all"))
        Appended(elem_def) ==
            IF MinOccurs(tree[elem_def]) = 0 /\ ~include_optional THEN <<>>
            ELSE IF tree[elem_def].name # "" THEN <<tree[elem_def].name>>
            ELSE IF tree[elem_def].ref # "" THEN <<RemoveNsPrefix(tree[elem_def].ref)>>
            ELSE <<>>
        Container(container) ==
            LET elements == InOrder(SelectedElements(tree, container, choice_index))
            IN  Flatten([i \in DOMAIN elements |-> Appended(elements[i])])
    IN  IF current_depth > maxd \/ type_def = 0 THEN <<>>
        ELSE Flatten([i \in DOMAIN containers |-> Container(containers[i])])

\* _generate_snippet_for_depth: the root element and what _build_element adds
GenerateSnippetForDepth(tree, elem_name, elem_type, target_depth, include_optional, choice_index) ==
    Join({[NoPaths EXCEPT !.elements = {ElemPath(<<elem_name>>)}],
          BuildElement(tree, <<elem_name>>, elem_type, 1, target_depth,
                       include_optional, choice_index)})

----------------------------------------------------------------------------
(* OptionalElementExtractor (exsisting_code/optional_extractor.py).  A state *)
(* st of the extraction is [items, counter, error, types]:                   *)
(* self.optional_items, self.choice_group_counter, whether RecursionError    *)
(* was raised, and the calls of _extract_from_complex_type made so far as    *)
(* pairs of type_def and parent_path; active holds the calls of              *)
(* _extract_from_complex_type that have not returned.                        *)

\* OptionalItem; choice_group_id -1 is None
ElementItem(path, priority, is_choice, choice_group_id, choice_options) ==
    [path |-> path, item_type |-> "element", priority |-> priority,
     is_choice |-> is_choice, choice_group_id |-> choice_group_id,
     choice_options |-> choice_options]

AttributeItem(path) ==
    [path |-> path, item_type |-> "attribute", priority |-> 4,
     is_choice |-> FALSE, choice_group_id |-> -1, choice_options |-> <<>>]

\* _find_element_definition: the first declaration of that name, 0 for None
FindElementDefinition(tree, elem_name) == First(ElementsNamed(tree, elem_name))

\* _find_type_definition: the first complexType of the local name, else the
\* first simpleType, 0 for None
FindTypeDefinition(tree, type_name) ==
    LET local_name == RemoveNsPrefix(type_name)
        complex == {m \in Descendants(tree, 1, "complexType") :
                       tree[m].name = local_name /\ local_name # ""}
        simple  == {m \in Descendants(tree, 1, "simpleType") :
                       tree[m].name = local_name /\ local_name # ""}
    IN  IF complex # {} THEN First(complex) ELSE First(simple)

\* child_elem.get('name') or child_elem.get('ref')
NameOrRef(node) == IF node.name # "" THEN node.name ELSE node.ref

\* _extract_optional_attributes: every attribute below the type whose use is
\* 'optional', in document order
RECURSIVE OptionalAttributeItems(_, _, _, _)
OptionalAttributeItems(tree, attrs, i, element_path) ==
    IF i > Len(attrs) THEN <<>>
    ELSE (IF tree[attrs[i]].name # "" /\ Use(tree[attrs[i]]) = "optional"
          THEN <<AttributeItem(AttrPath(element_path, tree[attrs[i]].name))>>
          ELSE <<>>)
         \o OptionalAttributeItems(tree, attrs, i + 1, element_path)

ExtractOptionalAttributes(tree, type_def, element_path, st) ==
    [st EXCEPT !.items =
        @ \o OptionalAttributeItems(tree, InOrder(Descendants(tree, type_def, "attribute")),
                                    1, element_path)]

RECURSIVE ExtractFromElement(_, _, _, _, _, _, _)
RECURSIVE ExtractFromComplexType(_, _, _, _, _, _, _)
RECURSIVE ExtractSequenceFrom(_, _, _, _, _, _, _, _)
RECURSIVE ExtractChoiceFrom(_, _, _, _, _, _, _, _)

\* _extract_from_element
ExtractFromElement(tree, elem_name, current_path, current_depth, maxd, st, active) ==
    IF st.error THEN st
    ELSE IF current_depth > maxd THEN st
    ELSE
    LET elem_def == FindElementDefinition(tree, elem_name)
        type_def == IF elem_def = 0 THEN 0
                    ELSE IF tree[elem_def].type = ""
                    THEN First(Children(tree, elem_def, "complexType"))
                    ELSE FindTypeDefinition(tree, tree[elem_def].type)
    IN  IF type_def = 0 THEN st
        ELSE ExtractFromComplexType(tree, type_def, current_path, current_depth, maxd,
                                    st, active)

\* _extract_from_sequence: the loop over its element children from the i-th on
ExtractSequenceFrom(tree, children, i, parent_path, current_depth, maxd, st, active) ==
    IF st.error \/ i > Len(children) THEN st
    ELSE
    LET child_elem == tree[children[i]]
        elem_name == NameOrRef(child_elem)
        child_path == Append(parent_path, elem_name)
        listed == IF MinOccurs(child_elem) = 0
                  THEN [st EXCEPT !.items =
                           Append(@, ElementItem(ElemPath(child_path), 5, FALSE, -1, <<>>))]
                  ELSE st
    IN  IF elem_name = ""
        THEN ExtractSequenceFrom(tree, children, i + 1, parent_path, current_depth,
                                 maxd, st, active)
        ELSE ExtractSequenceFrom(tree, children, i + 1, parent_path, current_depth, maxd,
                                 ExtractFromElement(tree, elem_name, child_path,
                                                    current_depth + 1, maxd, listed,
                                                    active),
                                 active)

\* _extract_from_choice: the loop over choice_paths from the i-th on, for the
\* group choice_group_id
ExtractChoiceFrom(tree, choice_paths, i, choice_group_id, current_depth, maxd, st, active) ==
    IF st.error \/ i > Len(choice_paths) THEN st
    ELSE
    LET child_path == choice_paths[i]
        elem_name == child_path[Len(child_path)]
        others == SelectSeq(choice_paths, LAMBDA p : p # child_path)
        listed == [st EXCEPT !.items =
                      Append(@, ElementItem(ElemPath(child_path), 7, TRUE,
                                            choice_group_id,
                                            [k \in DOMAIN others |-> ElemPath(others[k])]))]
    IN  ExtractChoiceFrom(tree, choice_paths, i + 1, choice_group_id, current_depth, maxd,
                          ExtractFromElement(tree, elem_name, child_path,
                                             current_depth + 1, maxd, listed, active),
                          active)

\* _extract_from_complex_type
ExtractFromComplexType(tree, type_def, parent_path, current_depth, maxd, st, active) ==
    IF st.error THEN st
    ELSE IF <<type_def, parent_path, current_depth>> \in active
    THEN [st EXCEPT !.error = TRUE]
    ELSE
    LET inner == active \cup {<<type_def, parent_path, current_depth>>}
        FromSequence(sequence, s) ==
            IF sequence = 0 THEN s
            ELSE ExtractSequenceFrom(tree, InOrder(Children(tree, sequence, "element")), 1,
                                     parent_path, current_depth, maxd, s, inner)
        FromChoice(choice, s) ==
            IF choice = 0 \/ s.error THEN s
            ELSE LET named == SelectSeq(InOrder(Children(tree, choice, "element")),
                                        LAMBDA c : NameOrRef(tree[c]) # "")
                     choice_paths == [k \in DOMAIN named |->
                                         Append(parent_path, NameOrRef(tree[named[k]]))]
                 IN  ExtractChoiceFrom(tree, choice_paths, 1, s.counter, current_depth,
                                       maxd, [s EXCEPT !.counter = @ + 1], inner)
        extension == First(Descendants(tree, type_def, "extension"))
        base_type_def == IF extension = 0 \/ tree[extension].base = "" THEN 0
                         ELSE FindTypeDefinition(tree, tree[extension].base)
        s1 == ExtractOptionalAttributes(tree, type_def, parent_path,
                  [st EXCEPT !.types = @ \cup {<<type_def, parent_path>>}])
        s2 == FromSequence(First(Descendants(tree, type_def, "sequence")), s1)
        s3 == FromChoice(First(Descendants(tree, type_def, "choice")), s2)
        s4 == IF base_type_def = 0 THEN s3
              ELSE ExtractFromComplexType(tree, base_type_def, parent_path, current_depth,
                                          maxd, s3, inner)
        s5 == FromSequence(First(Children(tree, extension, "sequence")), s4)
        s6 == FromChoice(First(Children(tree, extension, "choice")), s5)
    IN  IF extension = 0 THEN s3 ELSE s6

\* _find_root_element: the first element under xs:schema, 0 for None
FindRootElement(tree) == First(Children(tree, 1, "element"))

\* extract(max_depth)
ExtractItems(tree, maxd) ==
    LET root_element == FindRootElement(tree)
        empty == [items |-> <<>>, counter |-> 0, error |-> FALSE, types |-> {}]
    IN  IF root_element = 0 THEN empty
        ELSE ExtractFromElement(tree, tree[root_element].name,
                                <<tree[root_element].name>>, 1, maxd, empty, {})

----------------------------------------------------------------------------
(* PairwiseXMLBuilder (exsisting_code/pairwise_xml_builder.py).  A pattern is *)
(* [optional_paths_in_pattern, included_paths]: the keys of                  *)
(* pattern.assignments and the keys assigned True.                           *)
(* current_path / parent_path is the path string the builder computes and    *)
(* looks up in the pattern; xml_path is the place of the element in the XML  *)
(* that is built, which is what a reader of the XML sees.  active holds the  *)
(* type definitions whose call has not returned.                             *)

\* _find_type_definition: the type cache first, then the schema
CachedTypeDefinition(tree, type_name) ==
    IF TypeCacheGet(tree, RemoveNsPrefix(type_name)) # 0
    THEN TypeCacheGet(tree, RemoveNsPrefix(type_name))
    ELSE FindTypeDefinition(tree, type_name)

\* type_def.find('.//xs:simpleContent/xs:extension')
SimpleExtension(tree, type_def) ==
    First({e \in Descendants(tree, type_def, "extension") :
              tree[tree[e].parent].tag = "simpleContent"})

\* None of _build_element_with_pattern
None == [built |-> FALSE, paths |-> NoPaths]

\* an element at xml_path with the parts (attributes, children) added to it
ElementWith(xml_path, parts) ==
    [built |-> TRUE,
     paths |-> Join({[NoPaths EXCEPT !.elements = {ElemPath(xml_path)}]} \cup parts)]

\* the ds:Signature skeleton below the element at xml_path
SignatureSkeleton(xml_path) ==
    LET signed_info == Append(xml_path, "SignedInfo")
        reference == Append(signed_info, "Reference")
        transforms == Append(reference, "Transforms")
    IN  [NoPaths EXCEPT
           !.elements = {ElemPath(signed_info),
                         ElemPath(Append(signed_info, "CanonicalizationMethod")),
                         ElemPath(Append(signed_info, "SignatureMethod")),
                         ElemPath(reference), ElemPath(transforms),
                         ElemPath(Append(transforms, "Transform")),
                         ElemPath(Append(reference, "DigestMethod")),
                         ElemPath(Append(reference, "DigestValue")),
                         ElemPath(Append(xml_path, "SignatureValue"))},
           !.attributes = {AttrPath(Append(signed_info, "CanonicalizationMethod"), "Algorithm"),
                           AttrPath(Append(signed_info, "SignatureMethod"), "Algorithm"),
                           AttrPath(reference, "URI"),
                           AttrPath(Append(transforms, "Transform"), "Algorithm"),
                           AttrPath(Append(reference, "DigestMethod"), "Algorithm")}]

\* the attribute definitions three of the routines collect: the type's own,
\* those of its first extension and those of its simpleContent extension
CollectedAttributes(tree, type_def) ==
    Children(tree, type_def, "attribute")
        \cup Children(tree, First(Descendants(tree, type_def, "extension")), "attribute")
        \cup Children(tree, SimpleExtension(tree, type_def), "attribute")

\* the base type definition the routine recurses into, 0 for none;
\* xs_is_skipped: whether a base 'xs:...' is skipped
BaseTypeDefinition(tree, type_def, xs_is_skipped) ==
    LET extension == First(Descendants(tree, type_def, "extension"))
    IN  IF extension = 0 \/ tree[extension].base = "" THEN 0
        ELSE IF xs_is_skipped /\ StartsWith(tree[extension].base, "xs") THEN 0
        ELSE CachedTypeDefinition(tree, tree[extension].base)

RECURSIVE AddRequiredAttributesOnly(_, _, _, _)
\* _add_required_attributes_only
AddRequiredAttributesOnly(tree, type_def, xml_path, active) ==
    IF type_def \in active THEN StackOverflow
    ELSE Join({[NoPaths EXCEPT !.attributes =
                   {AttrPath(xml_path, tree[a].name) :
                       a \in {b \in CollectedAttributes(tree, type_def) :
                                 Use(tree[b]) = "required" /\ tree[b].name # ""}}],
               IF BaseTypeDefinition(tree, type_def, TRUE) # 0
               THEN AddRequiredAttributesOnly(tree, BaseTypeDefinition(tree, type_def, TRUE),
                                              xml_path, active \cup {type_def})
               ELSE NoPaths})

RECURSIVE AddAttributesWithPattern(_, _, _, _, _, _)
\* _add_attributes_with_pattern
AddAttributesWithPattern(tree, type_def, element_path, xml_path, pattern, active) ==
    IF type_def \in active THEN StackOverflow
    ELSE Join({[NoPaths EXCEPT !.attributes =
                   {AttrPath(xml_path, tree[a].name) :
                       a \in {b \in CollectedAttributes(tree, type_def) :
                                 /\ tree[b].name # ""
                                 /\ \/ Use(tree[b]) = "required"
                                    \/ AttrPath(element_path, tree[b].name)
                                           \notin pattern.optional_paths_in_pattern
                                    \/ AttrPath(element_path, tree[b].name)
                                           \in pattern.included_paths}}],
               IF BaseTypeDefinition(tree, type_def, TRUE) # 0
               THEN AddAttributesWithPattern(tree, BaseTypeDefinition(tree, type_def, TRUE),
                                             element_path, xml_path, pattern,
                                             active \cup {type_def})
               ELSE NoPaths})

RECURSIVE AddRequiredChildrenMinimal(_, _, _, _)
\* _add_required_children_minimal
AddRequiredChildrenMinimal(tree, type_def, xml_path, recursion_level) ==
    IF recursion_level > 2 THEN NoPaths
    ELSE
    LET extension == First(Descendants(tree, type_def, "extension"))
        Child(child_elem_def, signature_is_skipped) ==
            LET named == NameOrRef(tree[child_elem_def])
                child_name == RemoveNsPrefix(named)
                child_path == Append(xml_path, child_name)
                child_elem_definition == FindElementDefinition(tree, child_name)
                child_type_name == IF child_elem_definition = 0 THEN ""
                                   ELSE tree[child_elem_definition].type
                child_type_def ==
                    IF \/ child_type_name = ""
                       \/ StartsWith(child_type_name, "xs")
                       \/ StartsWith(child_type_name, "xsd")
                    THEN 0 ELSE CachedTypeDefinition(tree, child_type_name)
            IN  IF MinOccurs(tree[child_elem_def]) < 1 \/ named = "" THEN NoPaths
                ELSE IF signature_is_skipped /\ child_name = "Signature" THEN NoPaths
                ELSE Join({[NoPaths EXCEPT !.elements = {ElemPath(child_path)}]}
                          \cup (IF child_type_def = 0 THEN {}
                                ELSE {AddRequiredAttributesOnly(tree, child_type_def,
                                                                child_path, {}),
                                      IF recursion_level < 2
                                      THEN AddRequiredChildrenMinimal(tree, child_type_def,
                                                                      child_path,
                                                                      recursion_level + 1)
                                      ELSE NoPaths}))
    IN  Join({NoPaths}
             \cup {Child(c, TRUE) :
                      c \in UNION {Children(tree, sequence, "element") :
                                      sequence \in Descendants(tree, type_def, "sequence")}}
             \cup {Child(c, FALSE) :
                      c \in UNION {Children(tree, sequence, "element") :
                                      sequence \in Children(tree, extension, "sequence")}})

\* the element the sequence adds in place of a required child that
\* _build_element_with_pattern refused at the depth bound
RequiredStub(tree, child_name, xml_path) ==
    LET elem_def == FindElementDefinition(tree, child_name)
        type_name == IF elem_def = 0 THEN "" ELSE tree[elem_def].type
        type_def == IF type_name = "" \/ StartsWith(type_name, "xs") THEN 0
                    ELSE CachedTypeDefinition(tree, type_name)
    IN  Join({[NoPaths EXCEPT !.elements = {ElemPath(xml_path)}]}
             \cup (IF type_def = 0 THEN {}
                   ELSE {AddRequiredAttributesOnly(tree, type_def, xml_path, {}),
                         AddRequiredChildrenMinimal(tree, type_def, xml_path, 0)}))

\* _build_element_with_pattern returns an element, not None: the depth bound
\* is not passed and the element has a name
Builds(elem_name, current_depth, maxd) ==
    ~ (current_depth > maxd \/ elem_name = "" \/ RemoveNsPrefix(elem_name) = "")

RECURSIVE BuildElementWithPattern(_, _, _, _, _, _, _)
RECURSIVE AddChildElementsWithPattern(_, _, _, _, _, _, _, _)
RECURSIVE ChildrenAppendedWithPattern(_, _, _, _, _, _, _, _)

\* _process_sequence_with_pattern, one pass of its loop: what the child
\* declared by child_elem_def adds
SequenceChild(tree, child_elem_def, parent_path, xml_path, current_depth, maxd, pattern) ==
    LET named == NameOrRef(tree[child_elem_def])
        child_name == IF tree[child_elem_def].ref # "" /\ HasColon(named)
                         /\ RemoveNsPrefix(named) # ""
                      THEN RemoveNsPrefix(named) ELSE named
        child_path == Append(parent_path, child_name)
        min_occurs == MinOccurs(tree[child_elem_def])
        child_elem == BuildElementWithPattern(tree, child_name, child_path, xml_path,
                                              current_depth + 1, maxd, pattern)
    IN  IF named = "" THEN NoPaths
        ELSE IF ~ (\/ min_occurs >= 1
                   \/ ElemPath(child_path) \notin pattern.optional_paths_in_pattern
                   \/ ElemPath(child_path) \in pattern.included_paths)
        THEN NoPaths
        ELSE IF child_elem.built THEN child_elem.paths
        ELSE IF min_occurs >= 1 /\ current_depth + 1 > maxd
        THEN RequiredStub(tree, child_name, Append(xml_path, child_name))
        ELSE NoPaths

\* _process_sequence_with_pattern
ProcessSequenceWithPattern(tree, sequence, parent_path, xml_path, current_depth, maxd, pattern) ==
    Join({NoPaths} \cup {SequenceChild(tree, c, parent_path, xml_path, current_depth, maxd,
                                       pattern) :
                            c \in Children(tree, sequence, "element")})

\* _process_sequence_with_pattern: the names of the elements it appends to
\* parent_elem, in the order of the appends
SequenceAppends(tree, sequence, parent_path, xml_path, current_depth, maxd, pattern) ==
    LET element_defs == InOrder(Children(tree, sequence, "element"))
        Appended(c) ==
            LET named == NameOrRef(tree[c])
                child_name == IF tree[c].ref # "" /\ HasColon(named)
                                 /\ RemoveNsPrefix(named) # ""
                              THEN RemoveNsPrefix(named) ELSE named
                child_path == Append(parent_path, child_name)
                min_occurs == MinOccurs(tree[c])
            IN  IF named = "" THEN <<>>
                ELSE IF ~ (\/ min_occurs >= 1
                           \/ ElemPath(child_path) \notin pattern.optional_paths_in_pattern
                           \/ ElemPath(child_path) \in pattern.included_paths)
                THEN <<>>
                ELSE IF Builds(child_name, current_depth + 1, maxd)
                THEN <<RemoveNsPrefix(named)>>
                ELSE IF min_occurs >= 1 /\ current_depth + 1 > maxd
                THEN <<RemoveNsPrefix(named)>>
                ELSE <<>>
    IN  Flatten([i \in DOMAIN element_defs |-> Appended(element_defs[i])])

\* _process_choice_with_pattern: the first alternative, in document order,
\* that the pattern includes and that gets built
ProcessChoiceWithPattern(tree, choice, parent_path, xml_path, current_depth, maxd, pattern) ==
    LET Build(child_elem_def) ==
            BuildElementWithPattern(tree, NameOrRef(tree[child_elem_def]),
                                    Append(parent_path, NameOrRef(tree[child_elem_def])),
                                    xml_path, current_depth + 1, maxd, pattern)
        chosen == {c \in Children(tree, choice, "element") :
                      /\ NameOrRef(tree[c]) # ""
                      /\ ElemPath(Append(parent_path, NameOrRef(tree[c])))
                             \in pattern.included_paths
                      /\ Build(c).built}
    IN  IF chosen = {} THEN NoPaths ELSE Build(First(chosen)).paths

\* _add_child_elements_with_pattern
AddChildElementsWithPattern(tree, type_def, parent_path, xml_path, current_depth, maxd, pattern, active) ==
    IF type_def \in active THEN StackOverflow
    ELSE
    LET sequence == First(Descendants(tree, type_def, "sequence"))
        choice == First(Descendants(tree, type_def, "choice"))
        extension == First(Descendants(tree, type_def, "extension"))
        base_type_def == BaseTypeDefinition(tree, type_def, FALSE)
        seq == First(Children(tree, extension, "sequence"))
        ch == First(Children(tree, extension, "choice"))
        Sequence(s) == IF s = 0 THEN NoPaths
                       ELSE ProcessSequenceWithPattern(tree, s, parent_path, xml_path,
                                                       current_depth, maxd, pattern)
        Choice(c) == IF c = 0 THEN NoPaths
                     ELSE ProcessChoiceWithPattern(tree, c, parent_path, xml_path,
                                                   current_depth, maxd, pattern)
    IN  Join({Sequence(sequence), Choice(choice),
              IF base_type_def = 0 THEN NoPaths
              ELSE AddChildElementsWithPattern(tree, base_type_def, parent_path, xml_path,
                                               current_depth, maxd, pattern,
                                               active \cup {type_def}),
              Sequence(seq), Choice(ch)})

\* _process_choice_with_pattern: the name of the element it appends
ChoiceAppends(tree, choice, parent_path, xml_path, current_depth, maxd, pattern) ==
    LET chosen == {c \in Children(tree, choice, "element") :
                      /\ NameOrRef(tree[c]) # ""
                      /\ ElemPath(Append(parent_path, NameOrRef(tree[c])))
                             \in pattern.included_paths
                      /\ Builds(NameOrRef(tree[c]), current_depth + 1, maxd)}
    IN  IF chosen = {} THEN <<>> ELSE <<RemoveNsPrefix(NameOrRef(tree[First(chosen)]))>>

\* _add_child_elements_with_pattern: the names of the elements it appends to
\* parent_elem, in the order of the appends: the first sequence below the
\* type, the first choice below it, what the base type adds, then the
\* extension's own sequence and choice
ChildrenAppendedWithPattern(tree, type_def, parent_path, xml_path, current_depth, maxd, pattern, active) ==
    IF type_def \in active THEN <<>>
    ELSE
    LET sequence == First(Descendants(tree, type_def, "sequence"))
        choice == First(Descendants(tree, type_def, "choice"))
        extension == First(Descendants(tree, type_def, "extension"))
        base_type_def == BaseTypeDefinition(tree, type_def, FALSE)
        seq == First(Children(tree, extension, "sequence"))
        ch == First(Children(tree, extension, "choice"))
        Sequence(s) == IF s = 0 THEN <<>>
                       ELSE SequenceAppends(tree, s, parent_path, xml_path, current_depth,
                                            maxd, pattern)
        Choice(c) == IF c = 0 THEN <<>>
                     ELSE ChoiceAppends(tree, c, parent_path, xml_path, current_depth,
                                        maxd, pattern)
    IN  Sequence(sequence) \o Choice(choice)
            \o (IF base_type_def = 0 THEN <<>>
                ELSE ChildrenAppendedWithPattern(tree, base_type_def, parent_path, xml_path,
                                                 current_depth, maxd, pattern,
                                                 active \cup {type_def}))
            \o Sequence(seq) \o Choice(ch)

\* _build_element_with_pattern; xml_parent is the path of the element that the
\* caller appends the result to
BuildElementWithPattern(tree, elem_name, current_path, xml_parent, current_depth, maxd, pattern) ==
    IF ~ Builds(elem_name, current_depth, maxd) THEN None
    ELSE
    LET name == RemoveNsPrefix(elem_name)
        xml_path == Append(xml_parent, name)
        elem_def == FindElementDefinition(tree, name)
        type_name == IF elem_def = 0 THEN "" ELSE tree[elem_def].type
        external == /\ HasColon(type_name)
                    /\ ~ StartsWith(type_name, "xs") /\ ~ StartsWith(type_name, "xsd")
        type_def == IF elem_def = 0 THEN 0
                    ELSE IF type_name = "" THEN First(Children(tree, elem_def, "complexType"))
                    ELSE CachedTypeDefinition(tree, type_name)
        extension == IF Children(tree, type_def, "complexContent") = {} THEN 0
                     ELSE First(Descendants(tree, type_def, "extension"))
        has_content == \E tag \in {"sequence", "choice", "all"} :
                          \/ Children(tree, type_def, tag) # {}
                          \/ Children(tree, extension, tag) # {}
    IN  IF elem_def = 0 THEN ElementWith(xml_path, {})
        ELSE IF external
        THEN (IF name = "Signature" /\ type_name = "ds:SignatureType"
              THEN ElementWith(xml_path, {SignatureSkeleton(xml_path)})
              ELSE ElementWith(xml_path, {}))
        ELSE IF type_def = 0 THEN ElementWith(xml_path, {})
        ELSE ElementWith(xml_path,
                 {AddAttributesWithPattern(tree, type_def, current_path, xml_path,
                                           pattern, {}),
                  IF has_content
                  THEN AddChildElementsWithPattern(tree, type_def, current_path, xml_path,
                                                   current_depth, maxd, pattern, {})
                  ELSE NoPaths})

\* PairwiseXMLBuilder.build_xml(pattern)
BuildXmlFromPattern(tree, maxd, pattern) ==
    BuildElementWithPattern(tree, tree[FindRootElement(tree)].name,
                            <<tree[FindRootElement(tree)].name>>, <<>>, 1, maxd, pattern)

\* build_xml(pattern): the names of the children of the root element that
\* _build_element_with_pattern returns, in the order of the appends
BuildXmlChildren(tree, maxd, pattern) ==
    LET name == RemoveNsPrefix(tree[FindRootElement(tree)].name)
        elem_def == FindElementDefinition(tree, name)
        type_name == IF elem_def = 0 THEN "" ELSE tree[elem_def].type
        external == /\ HasColon(type_name)
                    /\ ~ StartsWith(type_name, "xs") /\ ~ StartsWith(type_name, "xsd")
        type_def == IF elem_def = 0 THEN 0
                    ELSE IF type_name = "" THEN First(Children(tree, elem_def, "complexType"))
                    ELSE CachedTypeDefinition(tree, type_name)
        extension == IF Children(tree, type_def, "complexContent") = {} THEN 0
                     ELSE First(Descendants(tree, type_def, "extension"))
        has_content == \E tag \in {"sequence", "choice", "all"} :
                          \/ Children(tree, type_def, tag) # {}
                          \/ Children(tree, extension, tag) # {}
    IN  IF 1 > maxd \/ name = "" \/ elem_def = 0 THEN <<>>
        ELSE IF external
        THEN (IF name = "Signature" /\ type_name = "ds:SignatureType"
              THEN <<"SignedInfo", "SignatureValue">> ELSE <<>>)
        ELSE IF type_def = 0 \/ ~ has_content THEN <<>>
        ELSE ChildrenAppendedWithPattern(tree, type_def,
                                         <<tree[FindRootElement(tree)].name>>, <<name>>,
                                         1, maxd, pattern, {})

----------------------------------------------------------------------------
(* Actions of the schema tools *)

trInputs == <<schema_tree, max_depth>>

TrInit ==
    /\ schema_tree \in Schemas
    /\ max_depth \in 0..MaxDepthArg
    /\ TrFresh
    /\ PwIdle
    /\ ScIdle
    /\ SdIdle
    /\ VlIdle
    /\ LdIdle
    /\ RpIdle
    /\ MpIdle

\* SchemaAnalyzer.analyze(max_recursion_depth = max_depth)
Analyze ==
    /\ analyzer_pc = "new"
    /\ LET result == AnalyzeSchema(schema_tree, max_depth)
       IN  /\ analyzer_pc' = IF result.error THEN "RecursionError" ELSE "analyzed"
           /\ defined_element_paths' = IF result.error THEN {} ELSE result.elements
           /\ defined_attribute_paths' = IF result.error THEN {} ELSE result.attributes
           /\ frame_reentered' = result.reentered
    /\ UNCHANGED <<trInputs, optional_items, choice_group_counter, extractor_pc,
                   builder, builder_args, xml_result, xml_elements, xml_attributes,
                   xml_children>>
    /\ UNCHANGED notTrVars

\* generate_snippets calls _generate_snippet_for_depth for every root element
\* that has a type, every target_depth in 1..min(max_depth, 5) and the
\* variations (True, 0), (False, 0), (True, 1), (True, 2)
GenerateSnippet ==
    /\ analyzer_pc = "analyzed" /\ builder = "none"
    /\ \E elem_def \in {e \in RootElements(schema_tree) : schema_tree[e].type # ""},
          target_depth \in 1..(IF max_depth < DefaultGenDepthCap
                               THEN max_depth ELSE DefaultGenDepthCap),
          include_optional \in BOOLEAN,
          choice_index \in 0..MaxChoiceIndex :
          /\ include_optional \/ choice_index = 0
          /\ LET result == GenerateSnippetForDepth(schema_tree, schema_tree[elem_def].name,
                                                   schema_tree[elem_def].type, target_depth,
                                                   include_optional, choice_index)
             IN  /\ xml_result' = IF result.error THEN "RecursionError" ELSE "element"
                 /\ xml_elements' = result.elements
                 /\ xml_attributes' = result.attributes
                 /\ xml_children' = IF result.error THEN <<>>
                                    ELSE ChildrenBuilt(schema_tree, schema_tree[elem_def].type,
                                                       1, target_depth, include_optional,
                                                       choice_index)
          /\ builder_args' = [root |-> schema_tree[elem_def].name,
                              target_depth |-> target_depth,
                              include_optional |-> include_optional,
                              choice_index |-> choice_index]
    /\ builder' = "XMLGenerator"
    /\ UNCHANGED <<trInputs, defined_element_paths, defined_attribute_paths, analyzer_pc,
                   frame_reentered, optional_items, choice_group_counter, extractor_pc>>
    /\ UNCHANGED notTrVars

\* OptionalElementExtractor.extract(max_depth)
Extract ==
    /\ extractor_pc = "new"
    /\ LET st == ExtractItems(schema_tree, max_depth)
       IN  /\ extractor_pc' = IF st.error THEN "RecursionError" ELSE "extracted"
           /\ optional_items' = st.items
           /\ choice_group_counter' = st.counter
    /\ UNCHANGED <<trInputs, defined_element_paths, defined_attribute_paths, analyzer_pc,
                   frame_reentered, builder, builder_args, xml_result, xml_elements,
                   xml_attributes, xml_children>>
    /\ UNCHANGED notTrVars

\* the TestPatterns over the extracted items: pattern.assignments has a subset
\* of the items' paths as keys, and of the alternatives of one choice group
\* at most one is assigned True
TestPatterns(items) ==
    LET item_paths == {items[i].path : i \in DOMAIN items}
        Exclusive(included) ==
            \A i, j \in DOMAIN items :
                (/\ items[i].is_choice /\ items[j].is_choice
                 /\ items[i].choice_group_id = items[j].choice_group_id
                 /\ items[i].path \in included /\ items[j].path \in included)
                    => items[i].path = items[j].path
    IN  {[optional_paths_in_pattern |-> keys, included_paths |-> included] :
            <<keys, included>> \in
                {kv \in (SUBSET item_paths) \X (SUBSET item_paths) :
                    kv[2] \subseteq kv[1] /\ Exclusive(kv[2])}}

\* PairwiseXMLBuilder(xsd_path, max_depth).build_xml(pattern); the constructor
\* builds an XMLGenerator, which runs the analyzer
BuildXml ==
    /\ analyzer_pc = "analyzed" /\ extractor_pc # "new" /\ builder = "none"
    /\ FindRootElement(schema_tree) # 0
    /\ \E pattern \in TestPatterns(optional_items) :
          /\ LET root_elem == BuildXmlFromPattern(schema_tree, max_depth, pattern)
             IN  /\ xml_result' = IF root_elem.paths.error THEN "RecursionError"
                                  ELSE IF root_elem.built THEN "element" ELSE "None"
                 /\ xml_elements' = root_elem.paths.elements
                 /\ xml_attributes' = root_elem.paths.attributes
                 /\ xml_children' = IF root_elem.paths.error THEN <<>>
                                    ELSE BuildXmlChildren(schema_tree, max_depth, pattern)
          /\ builder_args' = pattern
    /\ builder' = "PairwiseXMLBuilder"
    /\ UNCHANGED <<trInputs, defined_element_paths, defined_attribute_paths, analyzer_pc,
                   frame_reentered, optional_items, choice_group_counter, extractor_pc>>
    /\ UNCHANGED notTrVars

TrNext == Analyze \/ Extract \/ GenerateSnippet \/ BuildXml

SpecSchema == TrInit /\ [][TrNext]_vars

----------------------------------------------------------------------------
(* CoverageReporter.generate_report (xsd_coverage.py): the paths an XML uses *)
(* that the analyzer did not define, without those the report files under   *)
(* the external-namespace Signature subtree.                                 *)

\* '/Signature/' in path
InsideSignature(path) == \E i \in 1..(Len(path.elem) - 1) : path.elem[i] = "Signature"

\* external_ns_elements, external_ns_attributes
ExternalNs(undefined) == {p \in undefined : InsideSignature(p)}

\* truly_undefined_elements, truly_undefined_attributes
TrulyUndefined(used, defined) == {p \in used \ defined : ~ InsideSignature(p)}

----------------------------------------------------------------------------
(* What the schema declares, read off the schema itself: the declaration of  *)
(* the element at a path of an XML, and the children its type requires.      *)

\* the type definition of an element declaration: its named type, else its
\* inline complexType, 0 for a simple or unknown type
DeclaredType(tree, elem_def) ==
    IF elem_def = 0 THEN 0
    ELSE IF tree[elem_def].type # ""
    THEN First({t \in Children(tree, 1, "complexType") :
                   tree[t].name = RemoveNsPrefix(tree[elem_def].type)})
    ELSE First(Children(tree, elem_def, "complexType"))

\* the declaration a child of a content model stands for: itself, or the
\* global element its ref names
Referenced(tree, child) ==
    IF child = 0 THEN 0
    ELSE IF tree[child].ref = "" THEN child
    ELSE First({e \in Children(tree, 1, "element") :
                   tree[e].name = RemoveNsPrefix(tree[child].ref)})

RECURSIVE ContentModels(_, _, _)
\* the content model groups of a type: its own, those of its extension and
\* those of the base types
ContentModels(tree, type_def, seen) ==
    IF type_def = 0 \/ type_def \in seen THEN {}
    ELSE LET extension == First(Descendants(tree, type_def, "extension"))
             base == IF extension = 0 THEN 0
                     ELSE First({t \in Children(tree, 1, "complexType") :
                                    tree[t].name = RemoveNsPrefix(tree[extension].base)})
             Groups(n) == Children(tree, n, "sequence") \cup Children(tree, n, "choice")
                              \cup Children(tree, n, "all")
         IN  Groups(type_def) \cup Groups(extension)
                 \cup ContentModels(tree, base, seen \cup {type_def})

RECURSIVE GroupElements(_, _, _)
\* the element particles of a group and of the groups of the given tags
\* nested in it
GroupElements(tree, group, tags) ==
    Children(tree, group, "element")
        \cup UNION {GroupElements(tree, g, tags) :
                       g \in UNION {Children(tree, group, tag) : tag \in tags}}

RECURSIVE DeclarationAt(_, _)
\* the declaration of the element at an element path, 0 if the schema has none
DeclarationAt(tree, elem_path) ==
    IF Len(elem_path) = 1
    THEN First({e \in Children(tree, 1, "element") : tree[e].name = elem_path[1]})
    ELSE LET parent == DeclarationAt(tree, SubSeq(elem_path, 1, Len(elem_path) - 1))
             groups == ContentModels(tree, DeclaredType(tree, parent), {})
         IN  Referenced(tree,
                 First({c \in UNION {GroupElements(tree, g, {"sequence", "choice", "all"}) :
                                        g \in groups} :
                           RemoveNsPrefix(NameOrRef(tree[c])) = elem_path[Len(elem_path)]}))

\* the names of the children declared with minOccurs >= 1 in the sequences of
\* the type of the element at a path; the alternatives of a choice are not
\* required one by one
RequiredChildren(tree, elem_path) ==
    LET groups == ContentModels(tree, DeclaredType(tree, DeclarationAt(tree, elem_path)), {})
    IN  {RemoveNsPrefix(NameOrRef(tree[c])) :
            c \in {e \in UNION {GroupElements(tree, g, {"sequence"}) :
                                   g \in {h \in groups : tree[h].tag = "sequence"}} :
                      MinOccurs(tree[e]) >= 1 /\ NameOrRef(tree[e]) # ""}}

----------------------------------------------------------------------------
(* Claims about the schema tools, checked under SpecSchema *)

\* a builder has returned an XML tree
XmlBuilt == builder # "none" /\ xml_result = "element"

\* C3 (as stated): every XML tree built by XMLGenerator._generate_snippet_for_depth
\* or PairwiseXMLBuilder.build_xml contains, for every element it contains,
\* every child declared with minOccurs >= 1 in that element's type, also for
\* elements at or beyond the depth bound.
C3_RequiredClosure ==
    XmlBuilt =>
        \A p \in xml_elements :
            \A child \in RequiredChildren(schema_tree, p.elem) :
                ElemPath(Append(p.elem, child)) \in xml_elements

\* C4 (as stated): every element path and attribute path of an XML built by
\* PairwiseXMLBuilder.build_xml or XMLGenerator is defined by the analyzer run
\* on the same schema with the same max_depth, or lies inside the Signature
\* subtree: the truly-undefined sets are empty.
C4_PathAlphabet ==
    XmlBuilt =>
        /\ TrulyUndefined(xml_elements, defined_element_paths) = {}
        /\ TrulyUndefined(xml_attributes, defined_attribute_paths) = {}

\* the four paths the depth example names
RecursiveExamplePaths ==
    {ElemPath(<<"R">>), ElemPath(<<"R", "Sub">>), ElemPath(<<"R", "Sub", "Sub">>),
     ElemPath(<<"R", "Sub", "Sub", "Sub">>)}

\* C5 (as stated): after analyze(max_recursion_depth = d) every defined element
\* path has at most d + 1 slashes, and for the root R of type T whose child Sub
\* is of type T again and d = 3 the defined element paths are exactly /R,
\* /R/Sub, /R/Sub/Sub and /R/Sub/Sub/Sub.
C5_DepthBound ==
    analyzer_pc = "analyzed" =>
        /\ \A p \in defined_element_paths : Len(p.elem) <= max_depth + 1
        /\ (schema_tree = RecursiveSchema /\ max_depth = 3)
               => defined_element_paths = RecursiveExamplePaths

\* C6: analyze terminates with finite path sets on every schema, the ones
\* whose types are recursive through a child element, an element ref or
\* extension bases included, and no active (path, type, depth) frame is
\* entered again.
C6_CycleSafety ==
    /\ analyzer_pc # "RecursionError"
    /\ ~ frame_reentered
    /\ analyzer_pc = "analyzed" =>
           /\ IsFiniteSet(defined_element_paths)
           /\ IsFiniteSet(defined_attribute_paths)
           /\ ElemPath(<<schema_tree[FindRootElement(schema_tree)].name>>)
                  \in defined_element_paths

\* the analyzer has gone round the extension cycle A -> B -> A and come back
\* with the attributes of both types
C6_Witness ==
    /\ schema_tree = ExtensionCycleSchema
    /\ max_depth >= 1
    /\ analyzer_pc = "analyzed"
    /\ {AttrPath(<<"R">>, "a"), AttrPath(<<"R">>, "b")} \subseteq defined_attribute_paths

\* C7 (as stated): OptionalElementExtractor.extract and
\* PairwiseXMLBuilder.build_xml terminate on every schema with cyclic type
\* references, a cycle of extension bases included.
C7_OtherTraversalsTerminate ==
    /\ extractor_pc # "RecursionError"
    /\ builder = "PairwiseXMLBuilder" => xml_result # "RecursionError"

----------------------------------------------------------------------------
(* The module-level random generator of Python, which both pairwise          *)
(* generators seed in __init__ (random.seed(random_seed)) and draw from in   *)
(* generate.  random_state = [seed, pos]: the last seed given and the        *)
(* number of draws made since.  RandomStream(seed)[k] is the index the k-th  *)
(* random.choice over a list of two returns after random.seed(seed), as      *)
(* CPython's random module computes it.                                      *)

SeedStream42 ==
   <<
      0, 0, 1, 0, 0, 0, 0, 0, 1, 0, 0, 0, 0, 0, 0, 0, 1, 0, 1, 1, 0, 0, 1, 1, 1, 0, 0, 1, 0, 0, 1, 0,
      1, 1, 1, 0, 1, 0, 1, 0, 1, 1, 0, 0, 0, 0, 1, 0, 0, 0, 1, 1, 1, 1, 0, 1, 1, 0, 1, 0, 0, 0, 0, 1,
      1, 1, 0, 1, 0, 0, 0, 1, 1, 1, 0, 0, 1, 0, 1, 1, 1, 0, 1, 0, 0, 1, 1, 1, 1, 0, 0, 1, 0, 0, 0, 0,
      0, 1, 0, 1, 1, 1, 1, 0, 0, 1, 1, 0, 1, 1, 0, 1, 0, 1, 0, 0, 1, 0, 0, 1, 0, 0, 1, 1, 0, 0, 1, 1,
      0, 0, 0, 0, 0, 1, 0, 0, 0, 1, 0, 1, 1, 0, 0, 1, 1, 1, 1, 1, 0, 0, 0, 0, 1, 0, 0, 0, 0, 0, 0, 0,
      0, 0, 1, 0, 0, 1, 1, 0, 0, 1, 0, 1, 1, 0, 0, 0, 1, 1, 1, 1, 1, 0, 0, 0, 1, 1, 0, 0, 0, 0, 1, 0,
      1, 0, 1, 1, 0, 0, 1, 0, 0, 0, 0, 0, 0, 1, 1, 1, 0, 1, 0, 0, 1, 0, 1, 1, 1, 1, 1, 1, 0, 0, 1, 0,
      0, 0, 1, 0, 0, 1, 0, 0, 0, 0, 0, 0, 0, 1, 0, 0, 0, 0, 1, 1, 1, 0, 1, 0, 1, 1, 0, 1, 1, 1, 0, 0,
      1, 0, 0, 0, 1, 0, 1, 0, 0, 1, 1, 0, 1, 1, 0, 1, 0, 0, 1, 0, 0, 0, 1, 1, 0, 1, 0, 1, 1, 1, 0, 0,
      1, 1, 0, 0, 1, 0, 1, 0, 1, 1, 0, 0, 0, 0, 0, 1, 0, 1, 0, 0, 1, 1, 0, 1, 0, 0, 0, 1, 1, 0, 0, 0,
      0, 1, 0, 0, 1, 1, 0, 1, 0, 0, 1, 0, 1, 0, 0, 1, 1, 1, 0, 0, 0, 0, 1, 1, 1, 0, 1, 1, 1, 1, 0, 0,
      1, 0, 1, 0, 0, 1, 1, 1, 1, 0, 1, 0, 1, 0, 1, 0, 0, 1, 1, 0, 1, 1, 0, 1, 1, 1, 1, 1, 1, 0, 0, 1,
      1, 0, 1, 1, 0, 1, 1, 0, 1, 1, 1, 1, 1, 0, 1, 0, 0, 1, 1, 0, 0, 1, 0, 0, 0, 0, 0, 0, 1, 0, 1, 1,
      0, 1, 1, 1, 0, 0, 0, 0, 1, 0, 0, 1, 0, 0, 0, 1, 0, 1, 1, 1, 1, 1, 0, 1, 1, 1, 0, 1, 1, 0, 1, 1,
      0, 1, 0, 1, 1, 1, 0, 0, 0, 0, 1, 0, 0, 0, 1, 1, 1, 1, 1, 0, 0, 1, 1, 0, 1, 1, 0, 1, 1, 1, 1, 0,
      1, 0, 1, 1, 1, 0, 1, 1, 1, 0, 1, 0, 0, 1, 0, 0, 1, 0, 1, 0, 0, 1, 1, 1, 0, 1, 1, 1, 1, 1, 1, 1,
      0, 1, 0, 0, 1, 0, 0, 0, 0, 0, 0, 0, 0, 0, 0, 1, 0, 0, 1, 1, 1, 0, 0, 0, 1, 0, 0, 1, 1, 1, 0, 0,
      0, 0, 1, 0, 0, 1, 1, 1, 0, 1, 0, 1, 1, 0, 1, 1, 1, 0, 1, 0, 1, 1, 1, 1, 1, 1, 0, 0, 1, 1, 0, 1,
      1, 1, 0, 1, 1, 0, 1, 0, 1, 1, 1, 1, 1, 0, 0, 0, 0, 1, 1, 0, 1, 1, 1, 0, 0, 1, 0, 1, 0, 1, 1, 1,
      1, 1, 1, 1, 1, 1, 1, 1, 0, 0, 0, 1, 0, 0, 0, 0, 1, 1, 1, 0, 0, 1, 0, 1, 0, 1, 0, 0, 1, 0, 0, 1
   >>

SeedStream7 ==
   <<
      1, 0, 1, 0, 0, 0, 1, 0, 0, 0, 0, 1, 1, 0, 0, 0, 1, 0, 0, 0, 0, 1, 0, 0, 0, 0, 1, 1, 0, 0, 1, 0,
      0, 0, 1, 0, 0, 0, 0, 1, 1, 1, 1, 1, 1, 1, 0, 0, 0, 0, 1, 1, 1, 1, 1, 0, 0, 1, 0, 1, 0, 1, 1, 0,
      0, 1, 1, 1, 1, 1, 0, 0, 1, 1, 0, 0, 1, 1, 1, 1, 1, 0, 1, 1, 0, 0, 1, 0, 0, 1, 0, 0, 1, 1, 1, 0,
      0, 1, 1, 1, 0, 1, 1, 1, 1, 1, 0, 0, 0, 0, 0, 0, 0, 0, 1, 0, 1, 1, 0, 0, 1, 1, 1, 0, 0, 1, 1, 1,
      1, 1, 0, 1, 1, 0, 0, 0, 0, 1, 0, 0, 1, 0, 0, 0, 0, 0, 1, 0, 0, 0, 1, 0, 1, 1, 1, 1, 0, 0, 1, 1,
      1, 1, 1, 0, 0, 0, 1, 1, 1, 0, 0, 0, 1, 0, 0, 1, 0, 1, 1, 0, 1, 0, 1, 0, 0, 0, 1, 0, 0, 1, 1, 0,
      0, 1, 1, 1, 0, 1, 1, 1, 1, 0, 0, 0, 0, 1, 0, 1, 0, 1, 0, 1, 1, 0, 0, 1, 0, 1, 0, 1, 1, 0, 1, 1,
      1, 0, 0, 0, 0, 0, 0, 1, 0, 1, 1, 0, 0, 0, 0, 0, 0, 1, 0, 0, 0, 1, 0, 1, 0, 1, 1, 1, 0, 0, 1, 1,
      1, 0, 0, 0, 1, 0, 0, 0, 0, 0, 1, 0, 0, 1, 1, 0, 0, 0, 0, 1, 0, 0, 1, 0, 0, 1, 1, 0, 1, 1, 1, 0,
      1, 0, 1, 0, 1, 0, 1, 1, 1, 0, 0, 1, 0, 0, 1, 0, 0, 1, 0, 1, 0, 1, 0, 0, 1, 1, 0, 0, 0, 1, 1, 1,
      1, 0, 1, 1, 0, 1, 0, 1, 1, 1, 0, 1, 1, 1, 0, 0, 0, 0, 0, 1, 1, 0, 0, 1, 0, 1, 1, 1, 0, 1, 1, 0,
      1, 0, 0, 1, 0, 1, 0, 0, 1, 0, 0, 0, 1, 0, 1, 0, 1, 1, 1, 0, 0, 0, 0, 0, 1, 0, 0, 0, 1, 1, 0, 1,
      1, 0, 1, 1, 0, 1, 0, 0, 0, 0, 1, 0, 1, 0, 1, 1, 1, 1, 0, 0, 1, 0, 0, 1, 1, 0, 0, 0, 0, 1, 1, 0,
      0, 0, 1, 1, 0, 1, 0, 1, 0, 0, 1, 1, 0, 1, 1, 1, 1, 0, 0, 1, 0, 1, 0, 0, 1, 1, 0, 1, 1, 0, 0, 0,
      0, 1, 0, 0, 1, 0, 1, 0, 1, 1, 0, 0, 0, 1, 1, 1, 0, 1, 0, 0, 1, 0, 0, 0, 0, 0, 0, 0, 1, 0, 1, 1,
      0, 0, 0, 1, 1, 0, 1, 0, 0, 0, 1, 1, 0, 1, 0, 0, 0, 1, 1, 1, 0, 1, 1, 0, 0, 0, 0, 1, 1, 1, 0, 0,
      1, 0, 1, 1, 0, 0, 1, 1, 1, 1, 1, 1, 0, 0, 1, 0, 1, 0, 1, 1, 0, 1, 1, 1, 0, 0, 0, 0, 0, 1, 1, 0,
      1, 0, 1, 0, 1, 1, 1, 0, 0, 0, 1, 1, 1, 1, 0, 1, 1, 1, 1, 0, 1, 0, 1, 1, 1, 0, 0, 0, 1, 1, 1, 0,
      1, 1, 0, 1, 1, 1, 0, 1, 0, 0, 1, 0, 0, 1, 1, 1, 0, 1, 1, 0, 1, 0, 0, 0, 1, 1, 0, 1, 1, 0, 0, 0,
      1, 1, 1, 1, 1, 1, 1, 1, 0, 1, 1, 1, 0, 0, 0, 0, 0, 1, 0, 1, 1, 1, 1, 0, 0, 0, 0, 0, 1, 0, 1, 0
   >>

RandomStream(seed) == IF seed = 42 THEN SeedStream42 ELSE SeedStream7

\* the random_seed arguments explored: the default and another one
RandomSeeds == {42, 7}

\* num_candidates of _find_best_pattern as _greedy_pairwise passes it
NumCandidatesBasic == 50

\* random.choice(options) for a list of two, read at the current position
RandomChoice(options, state) == options[RandomStream(state.seed)[state.pos + 1] + 1]

\* the state after one draw
Drawn(state) == [state EXCEPT !.pos = @ + 1]

RECURSIVE AdjustSeeded(_, _, _, _)
\* _adjust_for_choice_constraints from group g onwards, drawing from the
\* module generator: [assignments, state]
AdjustSeeded(adjusted, groups, g, state) ==
    IF g > Len(groups) THEN [assignments |-> adjusted, state |-> state]
    ELSE LET true_paths == SelectSeq(groups[g], LAMBDA p : Get(adjusted, p))
             chosen == RandomChoice(true_paths, state)
         IN  IF Len(true_paths) > 1
             THEN AdjustSeeded([p \in DOMAIN adjusted |->
                                   IF p \in Range(true_paths) /\ p # chosen
                                   THEN FALSE ELSE adjusted[p]],
                               groups, g + 1, Drawn(state))
             ELSE AdjustSeeded(adjusted, groups, g + 1, state)

\* _create_pattern with the module generator: [pattern, state]
CreatePatternSeeded(id, ps, assignments, groups, state) ==
    LET adjusted == AdjustSeeded(assignments, groups, 1, state)
    IN  [pattern |-> [pattern_id    |-> id,
                      assignments   |-> adjusted.assignments,
                      covered_pairs |-> {Pair(ps, adjusted.assignments, c) :
                                            c \in Combinations(ps)}],
         state   |-> adjusted.state]

\* {path: random.choice([True, False]) for path in paths}: one draw per list
\* entry, the last entry of a path deciding
RandomAssignmentSeeded(ps, state) ==
    [p \in Range(ps) |->
        LET last == CHOOSE i \in DOMAIN ps :
                        ps[i] = p /\ \A j \in DOMAIN ps : ps[j] = p => j <= i
        IN  RandomChoice(<<TRUE, FALSE>>, [state EXCEPT !.pos = @ + last - 1])]

\* one pass of the candidate loop of _find_best_pattern; best is
\* [pattern, score, state]
CandidatePassSeeded(id, ps, unc, groups, best) ==
    LET drawn == [best.state EXCEPT !.pos = @ + Len(ps)]
        created == CreatePatternSeeded(id, ps, RandomAssignmentSeeded(ps, best.state),
                                       groups, drawn)
        score == Score(created.pattern, unc)
    IN  IF score > best.score
        THEN [pattern |-> created.pattern, score |-> score, state |-> created.state]
        ELSE [best EXCEPT !.state = created.state]

RECURSIVE CandidatePassesSeeded(_, _, _, _, _, _, _)
\* the passes first..last of the candidate loop, one after the other (the
\* range is halved to keep the evaluation shallow)
CandidatePassesSeeded(id, ps, unc, groups, first, last, best) ==
    IF first = last THEN CandidatePassSeeded(id, ps, unc, groups, best)
    ELSE LET half == CandidatePassesSeeded(id, ps, unc, groups, first,
                                           (first + last) \div 2, best)
         IN  IF half.score >= 0
             THEN CandidatePassesSeeded(id, ps, unc, groups, (first + last) \div 2 + 1,
                                        last, half)
             ELSE half

\* _find_best_pattern(pattern_id, paths, uncovered_pairs, choice_groups, 50)
FindBestPatternSeeded(id, ps, unc, groups, state) ==
    CandidatePassesSeeded(id, ps, unc, groups, 1, NumCandidatesBasic,
                          [pattern |-> NoPattern, score |-> 0, state |-> state])

RECURSIVE GreedyLoopSeeded(_, _, _, _, _, _)
\* the while loop of _greedy_pairwise: [patterns, uncovered_pairs, state]
GreedyLoopSeeded(ps, groups, maxp, pats, unc, state) ==
    IF ~ (unc # {} /\ Len(pats) < maxp)
    THEN [patterns |-> pats, uncovered_pairs |-> unc, state |-> state]
    ELSE LET best == FindBestPatternSeeded(Len(pats), ps, unc, groups, state)
         IN  IF best.pattern = NoPattern \/ Cardinality(best.pattern.covered_pairs) = 0
             THEN [patterns |-> pats, uncovered_pairs |-> unc, state |-> best.state]
             ELSE GreedyLoopSeeded(ps, groups, maxp, Append(pats, best.pattern),
                                   unc \ best.pattern.covered_pairs, best.state)

\* PairwiseCoverageGenerator.generate: the CoveringArray it returns and the
\* state it leaves the module generator in
GreedyPairwiseSeeded(ps, groups, maxp, state) ==
    LET all_pairs == EnumerateAllPairs(ps, groups)
        pattern1 == CreatePatternSeeded(0, ps, Uniform(ps, TRUE), groups, state)
        pattern2 == CreatePatternSeeded(1, ps, Uniform(ps, FALSE), groups, pattern1.state)
        looped == GreedyLoopSeeded(ps, groups, maxp,
                                   <<pattern1.pattern, pattern2.pattern>>,
                                   (all_pairs \ pattern1.pattern.covered_pairs)
                                       \ pattern2.pattern.covered_pairs,
                                   pattern2.state)
    IN  [patterns |-> looped.patterns,
         coverage |-> Ratio(Cardinality(all_pairs) - Cardinality(looped.uncovered_pairs),
                            Cardinality(all_pairs)),
         state    |-> looped.state]

\* the parameter lists and choice-group maps given to both instances
SeedParamLists == {<<>>, <<"p1">>, <<"p1", "p2">>, <<"p1", "p1">>}

SeedChoiceGroupMaps == {<<>>, <<(<<"p1", "p2">>)>>}

Instances == {1, 2}

SdInit ==
    /\ generator = "basic"
    /\ optional_paths \in SeedParamLists
    /\ max_parameters = 0
    /\ choice_groups \in SeedChoiceGroupMaps
    /\ max_patterns \in 0..MaxPatternsArg
    /\ random_seed \in RandomSeeds
    /\ PwFresh
    /\ SdFresh
    /\ ScIdle
    /\ TrIdle
    /\ VlIdle
    /\ LdIdle
    /\ RpIdle
    /\ MpIdle

\* PairwiseCoverageGenerator(random_seed = random_seed): seeds the module
\* generator
Construct(i) ==
    /\ instances[i].pc = "none"
    /\ random_state' = [seed |-> random_seed, pos |-> 0]
    /\ instances' = [instances EXCEPT ![i].pc = "constructed"]
    /\ UNCHANGED random_seed
    /\ UNCHANGED notSdVars

\* instance i .generate(optional_paths, 2, max_patterns, choice_groups)
GenerateSeeded(i) ==
    /\ instances[i].pc = "constructed"
    /\ LET array == GreedyPairwiseSeeded(optional_paths, choice_groups, max_patterns,
                                         random_state)
       IN  /\ instances' = [instances EXCEPT ![i] = [pc       |-> "done",
                                                     patterns |-> array.patterns,
                                                     coverage |-> array.coverage]]
           /\ random_state' = array.state
    /\ UNCHANGED random_seed
    /\ UNCHANGED notSdVars

SdNext == \E i \in Instances : Construct(i) \/ GenerateSeeded(i)

SpecSeed == SdInit /\ [][SdNext]_vars

\* C11 (as stated): two generator instances constructed with the same
\* random_seed and then given the same optional_paths, choice_groups and
\* max_patterns return the same pattern sequence (ids and assignments in the
\* same order) and the same coverage, so that the XML built from them is the
\* same.
C11_SeedDeterminism ==
    (instances[1].pc = "done" /\ instances[2].pc = "done")
        => /\ instances[1].patterns = instances[2].patterns
           /\ instances[1].coverage = instances[2].coverage

\* ======================================================================
\* Value synthesis: XMLGenerator._add_attributes / _generate_sample_value
\* and PairwiseXMLBuilder._generate_dummy_value / _generate_text_value
\* ======================================================================

\* the schema's one named simpleType
EnumTypeName == "StatusType"

EnumLiterals == {"X", "Y", "Z"}

\* enumeration lists a restriction can hold: none (no enumeration facet) up
\* to three distinct values in any order
EnumerationLists ==
    {<<>>} \cup {<<a>> : a \in EnumLiterals}
           \cup {l \in [1..2 -> EnumLiterals] : l[1] # l[2]}
           \cup {l \in [1..3 -> EnumLiterals] : Cardinality(Range(l)) = 3}

ValueTypes == {"StatusType", "tns:StatusType", "xs:string", "xs:integer", "xs:ID",
               "xs:dateTime", "tns:Unknown"}

ValueNames == {"status", "S"}

\* random.randint(a, b): the outcomes kept in the model
RandIntOutcomes(a, b) == {a, b}

\* XMLGenerator._get_enum_values: type_cache lookup of the cleaned name, then
\* every enumeration value below the type
GetEnumValues(type_name) ==
    IF type_name = EnumTypeName THEN enumerations ELSE <<>>

\* XMLGenerator._generate_sample_value: the outcomes; the ID, NCName and token
\* entries of the table are built with random.randint on every call
GenerateSampleValue(type_name) ==
    CASE type_name = "string"   -> {"SampleText"}
      [] type_name = "integer"  -> {"42"}
      [] type_name = "dateTime" -> {"2025-01-15T10:30:00"}
      [] type_name = "ID"       -> {"ID" \o ToString(n) : n \in RandIntOutcomes(1000, 9999)}
      [] OTHER                  -> {"DefaultValue"}

\* PairwiseXMLBuilder._get_enumeration_values: _find_type_definition of the
\* local name, then restriction/enumeration/@value
GetEnumerationValues(type_name) ==
    IF RemoveNsPrefix(type_name) = EnumTypeName THEN enumerations ELSE <<>>

\* PairwiseXMLBuilder._generate_dummy_value
GenerateDummyValueOf(name, attr_type) ==
    LET enum_values == GetEnumerationValues(attr_type)
        local_type  == RemoveNsPrefix(attr_type)
    IN  IF enum_values # <<>> THEN enum_values[1]
        ELSE CASE local_type = "integer"  -> "1"
               [] local_type = "dateTime" -> "2024-01-01T00:00:00"
               [] OTHER                   -> name \o "_value"

\* PairwiseXMLBuilder._generate_text_value
GenerateTextValueOf(elem_name, elem_type) ==
    LET enum_values == GetEnumerationValues(elem_type)
        local_type  == RemoveNsPrefix(elem_type)
    IN  IF enum_values # <<>> THEN enum_values[1]
        ELSE CASE local_type = "string"   -> elem_name \o "_value"
               [] local_type = "integer"  -> "100"
               [] local_type = "dateTime" -> "2024-01-01T00:00:00Z"
               [] OTHER                   -> "sample_text"

VlInit ==
    /\ enumerations \in EnumerationLists
    /\ value_name \in ValueNames
    /\ value_type \in ValueTypes
    /\ sample_value = ""
    /\ value_by = "none"
    /\ drew_random = FALSE
    /\ PwIdle
    /\ ScIdle
    /\ TrIdle
    /\ SdIdle
    /\ LdIdle
    /\ RpIdle
    /\ MpIdle

\* XMLGenerator._add_attributes for one attribute definition: the generator
\* never seeds the random module, so random.choice returns any list entry
AddAttributeValue ==
    LET clean_attr_type == RemoveNsPrefix(value_type)
        enum_values     == GetEnumValues(clean_attr_type)
    IN  /\ sample_value' \in (IF enum_values # <<>> THEN Range(enum_values)
                              ELSE GenerateSampleValue(clean_attr_type))
        /\ value_by' = "_add_attributes"
        /\ drew_random' = TRUE
        /\ UNCHANGED <<enumerations, value_name, value_type>>
        /\ UNCHANGED notVlVars

\* PairwiseXMLBuilder._generate_dummy_value(value_name, value_type)
GenerateDummyValue ==
    /\ sample_value' = GenerateDummyValueOf(value_name, value_type)
    /\ value_by' = "_generate_dummy_value"
    /\ drew_random' = FALSE
    /\ UNCHANGED <<enumerations, value_name, value_type>>
    /\ UNCHANGED notVlVars

\* PairwiseXMLBuilder._generate_text_value(value_name, value_type)
GenerateTextValue ==
    /\ sample_value' = GenerateTextValueOf(value_name, value_type)
    /\ value_by' = "_generate_text_value"
    /\ drew_random' = FALSE
    /\ UNCHANGED <<enumerations, value_name, value_type>>
    /\ UNCHANGED notVlVars

VlNext == AddAttributeValue \/ GenerateDummyValue \/ GenerateTextValue

SpecValue == VlInit /\ [][VlNext]_vars

\* C12 (as stated): whenever a generated attribute value or element text has
\* a type that resolves to a simpleType with enumeration values, the value
\* written is the first enumeration value, in the set-cover builder
\* (_add_attributes) and in the pairwise builder (_generate_dummy_value,
\* _generate_text_value), and the synthesis draws no random numbers.
C12_FirstEnumerationValue ==
    (value_by # "none" /\ GetEnumerationValues(value_type) # <<>>)
        => /\ sample_value = GetEnumerationValues(value_type)[1]
           /\ ~drew_random

----------------------------------------------------------------------------
(* Choice containers of an emitted element, checked under SpecSchema *)

\* the choice containers of the content model of the element at an element
\* path: the choices among and below the groups of its type, not those of the
\* inline types of its children
ChoicesAt(tree, elem_path) ==
    LET groups == ContentModels(tree, DeclaredType(tree, DeclarationAt(tree, elem_path)), {})
    IN  {c \in DOMAIN tree :
            /\ tree[c].tag = "choice"
            /\ \E g \in groups :
                  \/ c = g
                  \/ /\ g \in Ancestors(tree, c)
                     /\ \A a \in Ancestors(tree, c) :
                           g \in Ancestors(tree, a) => tree[a].tag # "element"}

\* the alternatives of a choice container in document order
Alternatives(tree, choice) ==
    InOrder({e \in Children(tree, choice, "element") : NameOrRef(tree[e]) # ""})

\* the XML path of an alternative below the element at parent
AlternativePath(tree, parent, alt) ==
    ElemPath(Append(parent.elem, RemoveNsPrefix(NameOrRef(tree[alt]))))

\* the pattern assigns True to the alternative
AlternativeTrue(tree, parent, alt, pattern) ==
    \E q \in pattern.included_paths :
        /\ q.attr = ""
        /\ [i \in DOMAIN q.elem |-> RemoveNsPrefix(q.elem[i])]
               = AlternativePath(tree, parent, alt).elem

\* C13 (as stated): every emitted element whose type contains a choice
\* container with N >= 1 alternatives holds exactly one of the alternatives
\* as a child: in XMLGenerator the alternative at index choice_index mod N, in
\* PairwiseXMLBuilder the alternative whose path is True in the pattern, or
\* the first alternative when no alternative of the choice is True.
C13_ExactlyOneAlternative ==
    XmlBuilt =>
        \A p \in xml_elements :
            \A c \in ChoicesAt(schema_tree, p.elem) :
                LET alts == Alternatives(schema_tree, c)
                    emitted == {i \in DOMAIN alts :
                                   AlternativePath(schema_tree, p, alts[i]) \in xml_elements}
                    assigned == {i \in DOMAIN alts :
                                    AlternativeTrue(schema_tree, p, alts[i], builder_args)}
                IN  Len(alts) >= 1 =>
                        emitted = IF builder = "XMLGenerator"
                                  THEN {(builder_args.choice_index % Len(alts)) + 1}
                                  ELSE IF assigned # {} THEN assigned ELSE {1}

----------------------------------------------------------------------------
(* Optional children of an emitted element, checked under SpecSchema *)

\* the child declarations with minOccurs = 0 in the sequences of the type of
\* the element at an element path
OptionalChildren(tree, elem_path) ==
    LET groups == ContentModels(tree, DeclaredType(tree, DeclarationAt(tree, elem_path)), {})
    IN  {e \in UNION {GroupElements(tree, g, {"sequence"}) :
                         g \in {h \in groups : tree[h].tag = "sequence"}} :
            MinOccurs(tree[e]) = 0 /\ NameOrRef(tree[e]) # ""}

\* the paths the extractor gives the child declared by child below the
\* element at parent: the items that lead to the same XML element
ExtractorPaths(tree, parent, child) ==
    {optional_items[i].path : i \in
        {j \in DOMAIN optional_items :
            /\ optional_items[j].path.attr = ""
            /\ optional_items[j].path.elem[Len(optional_items[j].path.elem)]
                   = NameOrRef(tree[child])
            /\ [k \in DOMAIN optional_items[j].path.elem |->
                   RemoveNsPrefix(optional_items[j].path.elem[k])]
                   = Append(parent.elem, RemoveNsPrefix(NameOrRef(tree[child])))}}

\* C14 (as stated): for every optional child element (minOccurs = 0) of an
\* element that PairwiseXMLBuilder emits within the depth bound, the child is
\* emitted iff the path the extractor gives that child is assigned True in the
\* pattern or is not a key of the pattern's assignments, so that a parameter
\* assigned False never appears; in XMLGenerator the child is emitted iff
\* include_optional is true.
C14_OptionalIffAssigned ==
    XmlBuilt =>
        \A p \in xml_elements :
            \A c \in OptionalChildren(schema_tree, p.elem) :
                LET emitted == ElemPath(Append(p.elem, RemoveNsPrefix(NameOrRef(schema_tree[c]))))
                                   \in xml_elements
                IN  IF builder = "PairwiseXMLBuilder"
                    THEN Len(p.elem) < max_depth =>
                            \A q \in ExtractorPaths(schema_tree, p, c) :
                                emitted <=> (\/ q \in builder_args.included_paths
                                             \/ q \notin builder_args.optional_paths_in_pattern)
                    ELSE Len(p.elem) < builder_args.target_depth =>
                            (emitted <=> builder_args.include_optional)

----------------------------------------------------------------------------
(* Children of an element of an extended type, checked under SpecSchema *)

\* the complexContent extension of a type definition, 0 if it has none
ContentExtension(tree, type_def) ==
    IF type_def = 0 \/ Children(tree, type_def, "complexContent") = {} THEN 0
    ELSE First(Descendants(tree, type_def, "extension"))

\* the complexType an extension names as its base, 0 if the schema has none
ExtensionBase(tree, extension) ==
    IF extension = 0 THEN 0
    ELSE First({t \in Children(tree, 1, "complexType") :
                   tree[t].name = RemoveNsPrefix(tree[extension].base)})

\* the child declarations of the groups
DeclaredIn(tree, groups) ==
    {e \in UNION {GroupElements(tree, g, {"sequence", "choice", "all"}) : g \in groups} :
        NameOrRef(tree[e]) # ""}

\* the names the declarations give their elements
ChildNames(tree, element_defs) ==
    {RemoveNsPrefix(NameOrRef(tree[e])) : e \in element_defs}

\* C15 (as stated): when a builder emits an element whose complexType is a
\* complexContent extension of a base type, the element's children are the
\* base type's children followed by the extension's own children, and each
\* declared child is emitted exactly once: no child of the derived sequence
\* comes before a base child or twice, and no required child is missing.
C15_BaseThenDerived ==
    XmlBuilt =>
        \A p \in {q \in xml_elements : Len(q.elem) = 1} :
            LET type_def == DeclaredType(schema_tree, DeclarationAt(schema_tree, p.elem))
                extension == ContentExtension(schema_tree, type_def)
                base == ExtensionBase(schema_tree, extension)
                inherited == DeclaredIn(schema_tree, ContentModels(schema_tree, base, {}))
                own == DeclaredIn(schema_tree,
                                  Children(schema_tree, extension, "sequence")
                                      \cup Children(schema_tree, extension, "choice")
                                      \cup Children(schema_tree, extension, "all"))
            IN  (extension # 0 /\ base # 0) =>
                    /\ \A i, j \in DOMAIN xml_children :
                          i < j => /\ xml_children[i] # xml_children[j]
                                   /\ ~ (/\ xml_children[i] \in ChildNames(schema_tree, own)
                                         /\ xml_children[j] \in ChildNames(schema_tree, inherited))
                    /\ RequiredChildren(schema_tree, p.elem) \subseteq Range(xml_children)

\* ======================================================================
\* SchemaAnalyzer._cache_type_definitions (exsisting_code/xsd_coverage.py):
\* the schema files a load reads.  A path is the list of its segments; an
\* absolute path starts with the segment "/".
\* ======================================================================

\* The longest path, in segments, a load gets to.  A cycle of imports through
\* '..' makes every nested path longer than the one before; the recursion
\* ends when os.path.exists refuses the path (PATH_MAX) or when the
\* interpreter's recursion limit raises RecursionError, which the except
\* clause of _process_imported_schema catches and reports as a warning.
MaxPathLen == 7

\* the directories on disk
Dirs == {<<"/">>, <<"/", "d">>, <<"/", "d", "sub">>}

\* os.path.abspath(xsd_path) and self.base_path = os.path.dirname(..)
MainSchema == <<"/", "d", "main.xsd">>
BasePath == <<"/", "d">>

\* the other schema files that can be on disk
SchemaB == <<"/", "d", "b.xsd">>
SchemaC == <<"/", "d", "sub", "c.xsd">>

\* the named complexTypes and simpleTypes a schema file declares
DeclaredTypes(file) ==
    CASE file = MainSchema -> {"TM"}
      [] file = SchemaB    -> {"TB", "SB"}
      [] file = SchemaC    -> {"TC"}
      [] OTHER             -> {}

\* schemaLocation values
Locations ==
    {<<"b.xsd">>, <<"sub", "..", "b.xsd">>, <<"sub", "c.xsd">>,
     <<"..", "sub", "c.xsd">>, <<"..", "b.xsd">>, <<"..", "main.xsd">>, <<"missing.xsd">>}

\* <xs:import schemaLocation=".."/> and <xs:include schemaLocation=".."/>
Directives == [kind : {"import", "include"}, schemaLocation : Locations]

\* directive lists of the main schema and of the other schemas
MainDirectiveLists == {<<>>} \cup {<<a>> : a \in Directives} \cup (Directives \X Directives)
InnerDirectiveLists ==
    {<<>>} \cup {<<a>> : a \in {x \in Directives : x.schemaLocation # <<"missing.xsd">>}}

\* os.path.isabs
IsAbs(path) == path # <<>> /\ path[1] = "/"

\* os.path.join(base, location) for a relative location
PathJoin(base, location) == base \o location

\* os.path.dirname
DirName(path) == SubSeq(path, 1, Len(path) - 1)

\* the file a path string leads to: '..' leaves a directory that exists;
\* <<>> if a segment cannot be followed
RECURSIVE Resolved(_, _)
Resolved(at, rest) ==
    IF rest = <<>> THEN at
    ELSE IF Head(rest) = ".."
    THEN (IF at \notin Dirs THEN <<>>
          ELSE Resolved(IF Len(at) > 1 THEN DirName(at) ELSE at, Tail(rest)))
    ELSE Resolved(Append(at, Head(rest)), Tail(rest))

Resolve(path) == Resolved(<<"/">>, Tail(path))

\* the path is longer than a load gets to
TooLong(schema_path) == Len(schema_path) > MaxPathLen

\* os.path.exists(schema_path)
PathExists(files, schema_path) ==
    /\ ~ TooLong(schema_path)
    /\ Resolve(schema_path) \in DOMAIN files

\* what a load has done so far
LoadState(cache, processed, warned, parsed) ==
    [type_cache |-> cache, processed_schemas |-> processed, warnings |-> warned,
     parse_log |-> parsed, exhausted |-> {}]

\* _cache_schema_types(schema_root)
CacheSchemaTypes(ld, file) ==
    [ld EXCEPT !.type_cache = @ \cup DeclaredTypes(file)]

\* imported_root.findall('./xsd:import'): the locations of its imports
ImportLocations(directives) ==
    SelectSeq(directives, LAMBDA d : d.kind = "import")

RECURSIVE ProcessImportedSchema(_, _, _)
RECURSIVE NestedImports(_, _, _, _, _)

\* _process_imported_schema(schema_location)
ProcessImportedSchema(files, ld, schema_location) ==
    LET schema_path == IF IsAbs(schema_location) THEN schema_location
                       ELSE PathJoin(BasePath, schema_location)
        file == Resolve(schema_path)
        added == [ld EXCEPT !.processed_schemas = @ \cup {schema_path}]
        read == [added EXCEPT !.parse_log = Append(@, file)]
    IN  IF schema_path \in ld.processed_schemas THEN ld
        ELSE IF TooLong(schema_path)
        THEN [added EXCEPT !.exhausted = @ \cup {schema_location}]
        ELSE IF ~ PathExists(files, schema_path) THEN added
        ELSE IF ~ files[file].parses
        THEN [read EXCEPT !.warnings = @ \cup {schema_location}]
        ELSE NestedImports(files, CacheSchemaTypes(read, file),
                           ImportLocations(files[file].directives), 1,
                           DirName(schema_path))

\* the loop over the imports of an imported schema
NestedImports(files, ld, imports, i, nested_base) ==
    IF i > Len(imports) THEN ld
    ELSE LET nested_path == PathJoin(nested_base, imports[i].schemaLocation)
         IN  NestedImports(files,
                           IF nested_path \notin ld.processed_schemas
                           THEN ProcessImportedSchema(files, ld, nested_path)
                           ELSE ld,
                           imports, i + 1, nested_base)

\* a loop of _cache_type_definitions over the directives of one kind
RECURSIVE TopLevelDirectives(_, _, _, _)
TopLevelDirectives(files, ld, directives, i) ==
    IF i > Len(directives) THEN ld
    ELSE TopLevelDirectives(files,
                            IF directives[i].schemaLocation \notin ld.processed_schemas
                            THEN ProcessImportedSchema(files, ld, directives[i].schemaLocation)
                            ELSE ld,
                            directives, i + 1)

\* _cache_type_definitions: the main schema's types, its imports, its includes
CacheTypeDefinitionsOf(files, ld) ==
    LET directives == files[MainSchema].directives
        own == CacheSchemaTypes(ld, MainSchema)
        imported == TopLevelDirectives(files, own, ImportLocations(directives), 1)
    IN  TopLevelDirectives(files, imported,
                           SelectSeq(directives, LAMBDA d : d.kind = "include"), 1)

\* a schema file: whether etree.parse accepts it, and its directives
SchemaFile(parses, directives) == [parses |-> parses, directives |-> directives]

\* the file systems: the main schema, and b.xsd and sub/c.xsd present or not,
\* well-formed or not
FileSystems ==
    LET main_files == {SchemaFile(TRUE, d) : d \in MainDirectiveLists}
        inner_files == {SchemaFile(TRUE, d) : d \in InnerDirectiveLists}
                           \cup {SchemaFile(FALSE, <<>>)}
    IN  {[f \in {MainSchema} |-> m] : m \in main_files}
            \cup {[f \in {MainSchema, SchemaB} |-> IF f = MainSchema THEN m ELSE b] :
                     m \in main_files, b \in inner_files}
            \cup {[f \in {MainSchema, SchemaB, SchemaC} |->
                      IF f = MainSchema THEN m ELSE IF f = SchemaB THEN b ELSE c] :
                     m \in main_files, b \in inner_files, c \in inner_files}

LdInit ==
    /\ schema_files \in FileSystems
    /\ LdFresh
    /\ PwIdle
    /\ ScIdle
    /\ TrIdle
    /\ SdIdle
    /\ VlIdle
    /\ RpIdle
    /\ MpIdle

\* SchemaAnalyzer(xsd_path).analyze(): the call of _cache_type_definitions
CacheTypeDefinitions ==
    /\ loader_pc = "new"
    /\ LET ld == CacheTypeDefinitionsOf(schema_files,
                                        LoadState(type_cache, processed_schemas, warnings,
                                                  parse_log))
       IN  /\ type_cache' = ld.type_cache
           /\ processed_schemas' = ld.processed_schemas
           /\ \E reported \in SUBSET ld.exhausted : warnings' = ld.warnings \cup reported
           /\ parse_log' = ld.parse_log
    /\ loader_pc' = "loaded"
    /\ UNCHANGED schema_files
    /\ UNCHANGED notLdVars

LdNext == CacheTypeDefinitions

SpecLoader == LdInit /\ [][LdNext]_vars

\* the number of etree.parse calls of the load that read the file
ParseCount(file) == Cardinality({i \in DOMAIN parse_log : parse_log[i] = file})

\* C16 (as stated): while caching type definitions the analyzer processes
\* each imported or included schema file at most once per load, also when
\* schemas import each other cyclically and a file is referred to through
\* different relative locations.
C16_EachFileAtMostOnce ==
    loader_pc = "loaded" => \A file \in DOMAIN schema_files : ParseCount(file) <= 1

\* the file a directive of the schema file names, the location resolved
\* against the directory of that file
DirectiveTarget(file, directive) ==
    Resolve(PathJoin(DirName(file), directive.schemaLocation))

\* the directive names a file that is missing or that etree.parse rejects
FailsToLoad(files, file, directive) ==
    \/ DirectiveTarget(file, directive) \notin DOMAIN files
    \/ ~ files[DirectiveTarget(file, directive)].parses

\* a warning was printed for a location that leads to the file
WarnedAbout(file) ==
    \E location \in warnings :
        Resolve(IF IsAbs(location) THEN location ELSE PathJoin(BasePath, location)) = file

\* C17 (as stated): if an imported or included schema file is missing or
\* fails to parse, loading raises no error: a warning is reported, the types
\* cached so far are kept, and the remaining import/include directives are
\* still processed.
C17_FailedImportIsWarning ==
    loader_pc # "new" =>
        /\ loader_pc = "loaded"
        /\ DeclaredTypes(MainSchema) \subseteq type_cache
        /\ \A i \in DOMAIN schema_files[MainSchema].directives :
              LET directive == schema_files[MainSchema].directives[i]
              IN  IF FailsToLoad(schema_files, MainSchema, directive)
                  THEN WarnedAbout(DirectiveTarget(MainSchema, directive))
                  ELSE DeclaredTypes(DirectiveTarget(MainSchema, directive))
                           \subseteq type_cache

\* the well-formed schema files reachable from the files in seen through
\* import and include directives
RECURSIVE ReachableFrom(_, _)
ReachableFrom(files, seen) ==
    LET found == UNION {{DirectiveTarget(f, files[f].directives[i]) :
                            i \in DOMAIN files[f].directives} : f \in seen}
        loadable == {f \in found : f \in DOMAIN files /\ files[f].parses}
    IN  IF loadable \subseteq seen THEN seen ELSE ReachableFrom(files, seen \cup loadable)

\* C18 (as stated): every named complexType and simpleType declared in a
\* schema that is reachable from the main schema through a chain of import
\* and include directives of any length and any mix is in type_cache after
\* loading.
C18_ReachableTypesCached ==
    loader_pc = "loaded" =>
        \A file \in ReachableFrom(schema_files, {MainSchema}) :
            DeclaredTypes(file) \subseteq type_cache
----------------------------------------------------------------------------
(* Choice groups of OptionalElementExtractor (optional_extractor.py).        *)

\* get_choice_groups: group id -> the paths of the choice items that carry
\* it, in the order of optional_items
GetChoiceGroups(items) ==
    LET ids == {items[i].choice_group_id : i \in {j \in DOMAIN items : items[j].is_choice}}
    IN  [g \in ids |->
            LET members == SelectSeq(items,
                               LAMBDA item : item.is_choice /\ item.choice_group_id = g)
            IN  [k \in DOMAIN members |-> members[k].path]]

\* the choice containers of the content model of a type definition: the
\* choices below it that are not inside the inline type of a child element
ChoiceContainers(tree, type_def) ==
    {c \in Descendants(tree, type_def, "choice") :
        \A a \in Ancestors(tree, c) :
            type_def \in Ancestors(tree, a) => tree[a].tag # "element"}

\* the choice containers the traversal has met: a container of a type with
\* the path of the element the type was reached for
ContainerVisits(tree, maxd) ==
    {<<c, tp[2]>> : <<c, tp>> \in
        {ct \in (DOMAIN tree) \X ExtractItems(tree, maxd).types :
            ct[1] \in ChoiceContainers(tree, ct[2][1])}}

\* the paths of the alternatives of a container below parent_path
AlternativePaths(tree, choice, parent_path) ==
    LET alts == Alternatives(tree, choice)
    IN  [k \in DOMAIN alts |-> ElemPath(Append(parent_path, NameOrRef(tree[alts[k]])))]

\* C19 (as stated): after extract, every choice container of every type the
\* traversal reached has a choice_group_id of its own: get_choice_groups
\* has as many ids as there are such containers, maps an id of its own to
\* each container's alternative paths and nothing else, and every choice
\* item's choice_options is its group's list without its own path.
C19_ChoiceGroupPerContainer ==
    extractor_pc = "extracted" =>
        LET groups == GetChoiceGroups(optional_items)
            visits == ContainerVisits(schema_tree, max_depth)
        IN  /\ Cardinality(DOMAIN groups) = Cardinality(visits)
            /\ \A v \in visits : \E g \in DOMAIN groups :
                  groups[g] = AlternativePaths(schema_tree, v[1], v[2])
            /\ \A g \in DOMAIN groups : \E v \in visits :
                  groups[g] = AlternativePaths(schema_tree, v[1], v[2])
            /\ \A i \in DOMAIN optional_items :
                  optional_items[i].is_choice =>
                      optional_items[i].choice_options =
                          SelectSeq(groups[optional_items[i].choice_group_id],
                                    LAMBDA p : p # optional_items[i].path)
----------------------------------------------------------------------------
(* CoverageReporter (xsd_coverage.py).  A percentage is the float the code   *)
(* computes, kept as the fraction num / den it is the quotient of.           *)

\* the element and attribute paths the reporter is given sets of
ReportElementPaths ==
    {ElemPath(<<"R">>), ElemPath(<<"R", "a">>), ElemPath(<<"R", "Signature", "k">>)}

ReportAttributePaths ==
    {AttrPath(<<"R">>, "id"), AttrPath(<<"R", "a">>, "lang"),
     AttrPath(<<"R", "Signature">>, "Id"), AttrPath(<<"R", "Signature", "k">>, "Algorithm")}

\* covered / total * 100
Percentage(covered, total) == [num |-> covered * 100, den |-> total]

\* the float 0.0 (and the int 0 of total_coverage)
ZeroPercent == [num |-> 0, den |-> 1]

\* a coverage that counts every used path, defined or not
CalculateCoverageOfUsed(defined, used) ==
    IF Cardinality(defined) = 0 THEN ZeroPercent
    ELSE Percentage(Cardinality(used), Cardinality(defined))

\* _calculate_coverage
CalculateCoverage(defined, used) ==
    IF Cardinality(defined) = 0 THEN ZeroPercent
    ELSE LET covered == Cardinality(used \cap defined)
         IN  Percentage(covered, Cardinality(defined))

\* generate_report: the sets and numbers the report text is written from
GenerateReportOf(d_elements, d_attributes, u_elements, u_attributes) ==
    LET covered_elements == u_elements \cap d_elements
        undefined_elements == u_elements \ d_elements
        covered_attributes == u_attributes \cap d_attributes
        undefined_attributes == u_attributes \ d_attributes
        total_defined == Cardinality(d_elements) + Cardinality(d_attributes)
        total_covered == Cardinality(covered_elements) + Cardinality(covered_attributes)
    IN  [covered_elements |-> covered_elements,
         undefined_elements |-> undefined_elements,
         covered_attributes |-> covered_attributes,
         undefined_attributes |-> undefined_attributes,
         element_coverage |-> CalculateCoverage(d_elements, u_elements),
         attribute_coverage |-> CalculateCoverage(d_attributes, u_attributes),
         total_defined |-> total_defined,
         total_covered |-> total_covered,
         total_in_xml |-> Cardinality(u_elements) + Cardinality(u_attributes),
         total_undefined |-> Cardinality(undefined_elements)
                                 + Cardinality(undefined_attributes),
         total_coverage |-> IF total_defined > 0
                            THEN Percentage(total_covered, total_defined)
                            ELSE ZeroPercent,
         unused_elements |-> d_elements \ u_elements,
         unused_attributes |-> d_attributes \ u_attributes,
         external_ns_elements |-> ExternalNs(undefined_elements),
         external_ns_attributes |-> ExternalNs(undefined_attributes),
         truly_undefined_elements |-> TrulyUndefined(u_elements, d_elements),
         truly_undefined_attributes |-> TrulyUndefined(u_attributes, d_attributes)]

\* CoverageReporter(defined_elements, defined_attributes, used_elements,
\* used_attributes)
RpInit ==
    /\ defined_elements \in SUBSET ReportElementPaths
    /\ defined_attributes \in SUBSET ReportAttributePaths
    /\ used_elements \in SUBSET ReportElementPaths
    /\ used_attributes \in SUBSET ReportAttributePaths
    /\ RpFresh
    /\ PwIdle
    /\ ScIdle
    /\ TrIdle
    /\ SdIdle
    /\ VlIdle
    /\ LdIdle
    /\ MpIdle

\* reporter.generate_report()
GenerateReport ==
    /\ reporter_pc = "new"
    /\ report' = GenerateReportOf(defined_elements, defined_attributes,
                                  used_elements, used_attributes)
    /\ reporter_pc' = "reported"
    /\ UNCHANGED <<defined_elements, defined_attributes, used_elements, used_attributes>>
    /\ UNCHANGED notRpVars

RpNext == GenerateReport

SpecReporter == RpInit /\ [][RpNext]_vars

\* num / den lies in [0, 100]
InPercentRange(p) == p.den > 0 /\ 0 <= p.num /\ p.num <= 100 * p.den

\* C20: the report holds, for elements and for attributes, covered = defined
\* and used, unused = defined and not used, undefined-used = used and not
\* defined; the combined percentage is 100 * (covered elements + covered
\* attributes) / (defined elements + defined attributes), and 0 when nothing
\* is defined; every percentage of the report lies in [0, 100].
C20_ReportSetAlgebra ==
    reporter_pc = "reported" =>
        LET e_def == defined_elements
            e_used == used_elements
            a_def == defined_attributes
            a_used == used_attributes
            defined == Cardinality(e_def) + Cardinality(a_def)
            covered == Cardinality({p \in e_def : p \in e_used})
                           + Cardinality({p \in a_def : p \in a_used})
        IN  /\ \A p \in ReportElementPaths :
                  /\ p \in report.covered_elements <=> (p \in e_def /\ p \in e_used)
                  /\ p \in report.unused_elements <=> (p \in e_def /\ p \notin e_used)
                  /\ p \in report.undefined_elements <=> (p \in e_used /\ p \notin e_def)
            /\ \A p \in ReportAttributePaths :
                  /\ p \in report.covered_attributes <=> (p \in a_def /\ p \in a_used)
                  /\ p \in report.unused_attributes <=> (p \in a_def /\ p \notin a_used)
                  /\ p \in report.undefined_attributes <=> (p \in a_used /\ p \notin a_def)
            /\ report.covered_elements \cup report.unused_elements
                   \cup report.undefined_elements \subseteq ReportElementPaths
            /\ report.covered_attributes \cup report.unused_attributes
                   \cup report.undefined_attributes \subseteq ReportAttributePaths
            /\ IF defined = 0 THEN report.total_coverage.num = 0
               ELSE report.total_coverage.num * defined
                        = 100 * covered * report.total_coverage.den
            /\ InPercentRange(report.element_coverage)
            /\ InPercentRange(report.attribute_coverage)
            /\ InPercentRange(report.total_coverage)

\* a report over paths of all three kinds: some covered, some unused, some
\* used without being defined, with a combined percentage strictly between
\* 0 and 100
C20_Witness ==
    /\ reporter_pc = "reported"
    /\ report.covered_elements # {} /\ report.unused_elements # {}
    /\ report.undefined_elements # {}
    /\ report.covered_attributes # {} /\ report.undefined_attributes # {}
    /\ 0 < report.total_coverage.num
    /\ report.total_coverage.num < 100 * report.total_coverage.den
----------------------------------------------------------------------------
(* External and truly undefined paths of the report, checked under           *)
(* SpecReporter                                                              *)

\* the path belongs to the Signature skeleton under the root: a descendant
\* element of /Root/Signature, an attribute of one, or an attribute of the
\* Signature element itself
InSignatureSkeleton(path) ==
    /\ Len(path.elem) >= 2
    /\ path.elem[2] = "Signature"
    /\ (Len(path.elem) > 2 \/ path.attr # "")

\* C21 (as stated): the report splits the undefined-used element paths and
\* attribute paths into external and truly undefined, disjoint and together
\* all of them, and every undefined-used path of the Signature skeleton under
\* /Root/Signature (descendant elements, their attributes, attributes of the
\* Signature element itself) is external, not truly undefined.
C21_SignatureIsExternal ==
    reporter_pc = "reported" =>
        /\ report.external_ns_elements \cap report.truly_undefined_elements = {}
        /\ report.external_ns_elements \cup report.truly_undefined_elements
               = report.undefined_elements
        /\ report.external_ns_attributes \cap report.truly_undefined_attributes = {}
        /\ report.external_ns_attributes \cup report.truly_undefined_attributes
               = report.undefined_attributes
        /\ \A p \in report.undefined_elements \cup report.undefined_attributes :
              InSignatureSkeleton(p) =>
                  /\ p \in report.external_ns_elements \cup report.external_ns_attributes
                  /\ p \notin report.truly_undefined_elements
                                  \cup report.truly_undefined_attributes

----------------------------------------------------------------------------
(* The choice-only scenario: two parameters that are the alternatives of one
   choice (pairwise_generator.py 148-176, 298-336) *)

\* the run of the scenario: the basic generator, exactly two distinct
\* parameters, both in one choice group, max_patterns >= 3, returned
ChoiceOnlyRun ==
    /\ gen_pc = "done"
    /\ generator = "basic"
    /\ Len(paths) = 2
    /\ paths[1] # paths[2]
    /\ AreInSameChoiceGroup(paths[1], paths[2], choice_groups)
    /\ max_patterns >= 3

\* some returned pattern assigns (first, second) to the two parameters
HasAssignment(first, second) ==
    \E i \in DOMAIN patterns :
        /\ Get(patterns[i].assignments, paths[1]) = first
        /\ Get(patterns[i].assignments, paths[2]) = second

BothAlternativesCovered ==
    /\ HasAssignment(TRUE, FALSE)
    /\ HasAssignment(FALSE, TRUE)
    /\ coverage.num = coverage.den

\* C22 as stated: the choice-only run always ends with a pattern for each
\* alternative and coverage 1.0, for every outcome of the candidate draws.
C22_BothAlternativesAlways == ChoiceOnlyRun => BothAlternativesCovered

\* C22 amended: the choice-only run ends with a pattern for each alternative
\* and coverage 1.0 unless no drawn candidate of the third iteration covered
\* the missing alternative; then the array is the two seed patterns, one
\* alternative has no pattern and coverage is 2/3.
C22_BothAlternativesUnlessNoGain ==
    ChoiceOnlyRun =>
        \/ /\ stop_reason = "covered"
           /\ Len(patterns) = 3
           /\ BothAlternativesCovered
        \/ /\ stop_reason = "no_gain"
           /\ Len(patterns) = 2
           /\ HasAssignment(FALSE, FALSE)
           /\ HasAssignment(TRUE, FALSE) # HasAssignment(FALSE, TRUE)
           /\ coverage.num = 2 /\ coverage.den = 3

\* C22 witness: a choice-only run that ended with both alternatives covered
\* by a greedily added third pattern.
C22_Witness ==
    /\ ChoiceOnlyRun
    /\ stop_reason = "covered"
    /\ Len(patterns) = 3
    /\ BothAlternativesCovered

----------------------------------------------------------------------------
(* Namespace prefixes in paths, checked under SpecSchema
   (optional_extractor.py 219-228, 274-280; xsd_coverage.py 337-341;
   pairwise_xml_builder.py 561-568, 636-644) *)

\* no element name of the path is written prefix:local
PrefixFree(path) == \A k \in DOMAIN path.elem : ~HasColon(path.elem[k])

\* C23 (as stated): no path that a tool produces carries a namespace prefix:
\* for a child declared by a prefixed ref the paths of the Path Enumerator,
\* the item paths of the Optional Extractor and the paths in its choice
\* groups all name the child by its local name.
C23_NoPrefixInPaths ==
    /\ analyzer_pc = "analyzed" =>
           \A p \in defined_element_paths \cup defined_attribute_paths : PrefixFree(p)
    /\ extractor_pc = "extracted" =>
           /\ \A i \in DOMAIN optional_items : PrefixFree(optional_items[i].path)
           /\ LET groups == GetChoiceGroups(optional_items)
              IN  \A g \in DOMAIN groups : \A k \in DOMAIN groups[g] :
                      PrefixFree(groups[g][k])

----------------------------------------------------------------------------
(* The snippet an iteration of solve_greedy appends, checked under
   SpecSetCover (xml_generator.py 513-541) *)

\* |covered_paths & uncovered| of candidate i
CoverageCount(i) == Cardinality(snippets[i].covered_paths \cap uncovered)

\* score(i) >= score(j) and score(i) > score(j), for
\* score = coverage_count / (1 + 0.1 * depth) = 10 * coverage_count / (10 + depth)
ScoreAtLeast(i, j) ==
    CoverageCount(i) * (10 + snippets[j].depth) >= CoverageCount(j) * (10 + snippets[i].depth)
ScoreAbove(i, j) ==
    CoverageCount(i) * (10 + snippets[j].depth) > CoverageCount(j) * (10 + snippets[i].depth)

\* candidate i has a non-empty intersection with uncovered, no such candidate
\* has a greater score, and every earlier such candidate has a smaller score
EarliestMaximizer(i) ==
    /\ CoverageCount(i) > 0
    /\ \A j \in DOMAIN snippets : CoverageCount(j) > 0 => ScoreAtLeast(i, j)
    /\ \A j \in DOMAIN snippets : (j < i /\ CoverageCount(j) > 0) => ScoreAbove(i, j)

\* C24 (as stated): the snippet an iteration of solve_greedy appends
\* maximizes |covered_paths & uncovered| / (1 + 0.1 * depth) over the
\* candidates with a non-empty intersection, and of several candidates with
\* the maximal score it is the earliest in the candidate list.
C24_AppendsEarliestMaximizer ==
    [][(sc_pc = "loop" /\ selected' # selected) =>
          \E i \in DOMAIN snippets :
              /\ selected' = Append(selected, snippets[i])
              /\ EarliestMaximizer(i)]_vars

\* the appended snippet is a maximizer of the score, earliest or not
C24_AppendsMaximizer ==
    [][(sc_pc = "loop" /\ selected' # selected) =>
          \E i \in DOMAIN snippets :
              /\ selected' = Append(selected, snippets[i])
              /\ CoverageCount(i) > 0
              /\ \A j \in DOMAIN snippets : CoverageCount(j) > 0 => ScoreAtLeast(i, j)]_vars

----------------------------------------------------------------------------
(* solve_greedy on empty inputs, checked under SpecSetCover
   (xml_generator.py 500-562) *)

\* C30 (as stated): when the universe is empty or the candidate list is
\* empty, solve_greedy raises no error and the selection it returns is
\* empty, for every target_coverage and max_files.
C30_EmptyInputsReturnEmpty ==
    (all_items = {} \/ snippets = <<>>) =>
        /\ sc_pc # "ZeroDivisionError"
        /\ sc_pc = "done" => selected_snippets = <<>>

\* the same for an empty candidate list and a universe that is not empty
C30_NoCandidatesReturnEmpty ==
    (all_items # {} /\ snippets = <<>>) =>
        /\ sc_pc # "ZeroDivisionError"
        /\ sc_pc = "done" => (selected_snippets = <<>> /\ sc_stop \in {"no_snippet", "max_files"})

----------------------------------------------------------------------------
(* The pair total of the two generators, checked under SpecPairwise
   (pairwise_generator_scalable.py 236-254, pairwise_generator.py 189-220) *)

\* no path occurs twice in the list
NoRepeats(ps) == \A i, j \in DOMAIN ps : ps[i] = ps[j] => i = j

\* C25 (as stated): for every parameter list, with or without repeated
\* entries, and every choice-group map, the total the generator works with is
\* both the number _count_total_pairs returns and the size of the set
\* _enumerate_all_pairs returns.
C25_CountEqualsEnumeration ==
    gen_pc # "call" =>
        /\ total_pairs = CountTotalPairs(paths, choice_groups)
        /\ total_pairs = Cardinality(EnumerateAllPairs(paths, choice_groups))

\* the same for parameter lists without repeated entries
C25_CountEqualsEnumerationNoRepeats ==
    (gen_pc # "call" /\ NoRepeats(paths)) =>
        /\ total_pairs = CountTotalPairs(paths, choice_groups)
        /\ total_pairs = Cardinality(EnumerateAllPairs(paths, choice_groups))

----------------------------------------------------------------------------
(* The pair counter of the scalable generator, checked under SpecPairwise
   (pairwise_generator_scalable.py 129-223, 285-318) *)

\* C26: in ScalablePairwiseCoverageGenerator, once the seed patterns are
\* folded into the global covered set and after every further fold,
\* covered_count is the size of that set and at most total_pairs, every
\* pattern in the array has an empty covered_pairs, and the coverage
\* returned lies in [0, 1] and is 1.0 only if every valid pair is covered.
C26_CounterMatchesCoveredSet ==
    (generator = "scalable" /\ gen_pc # "call") =>
        /\ covered_count = Cardinality(covered_pairs)
        /\ covered_count <= total_pairs
        /\ \A i \in DOMAIN patterns : patterns[i].covered_pairs = {}
        /\ gen_pc = "done" =>
              /\ 0 <= coverage.num
              /\ coverage.num <= coverage.den
              /\ coverage.num = coverage.den =>
                    covered_pairs = EnumerateAllPairs(paths, choice_groups)

\* C26 witness: the scalable generator returned after folding a greedily
\* added pattern, with pairs covered by several patterns counted once and
\* coverage 1.0.
C26_Witness ==
    /\ generator = "scalable"
    /\ gen_pc = "done"
    /\ Len(patterns) > 2
    /\ total_pairs > 0
    /\ covered_count = total_pairs
    /\ coverage.num = coverage.den

----------------------------------------------------------------------------
(* The caller's list and the max_parameters truncation, checked under
   SpecPairwise (pairwise_generator_scalable.py 85-95) *)

\* C27 (as stated): no step of ScalablePairwiseCoverageGenerator.generate
\* changes the caller's optional_paths list (same elements, same order), also
\* when the list is longer than max_parameters; the parameters of the array
\* are then exactly max_parameters entries of the input list.
C27_CallerListUnchanged ==
    [][/\ optional_paths' = optional_paths
       /\ (gen_pc = "call" /\ generator = "scalable" /\ max_parameters # 0
              /\ Len(optional_paths) > max_parameters) =>
             /\ Len(paths') = max_parameters
             /\ Range(paths') \subseteq Range(optional_paths)]_vars

\* the second half alone: the list worked on has max_parameters entries,
\* all from the caller's list, and the caller's list keeps its elements
C27_TruncatedParameters ==
    [][(gen_pc = "call" /\ generator = "scalable" /\ max_parameters # 0
           /\ Len(optional_paths) > max_parameters) =>
          /\ Len(paths') = max_parameters
          /\ Range(paths') \subseteq Range(optional_paths)
          /\ optional_paths' \in Shuffles(optional_paths)]_vars

----------------------------------------------------------------------------
(* Prefix closure of the defined paths, checked under SpecSchema
   (xsd_coverage.py 118-135, 268-347) *)

\* the path without its last segment
ParentPath(path) == ElemPath(SubSeq(path.elem, 1, Len(path.elem) - 1))

\* C28: after analyze, for every defined element path that is not a root
\* path the path without its last segment is a defined element path, and for
\* every defined attribute path E@a the path E is a defined element path.
C28_PrefixClosed ==
    analyzer_pc = "analyzed" =>
        /\ \A p \in defined_element_paths :
               Len(p.elem) > 1 => ParentPath(p) \in defined_element_paths
        /\ \A q \in defined_attribute_paths :
               ElemPath(q.elem) \in defined_element_paths

\* C28 witness: an analysis that defined an element path three segments
\* long and an attribute path of an element below the root.
C28_Witness ==
    /\ analyzer_pc = "analyzed"
    /\ \E p \in defined_element_paths : Len(p.elem) >= 3
    /\ \E q \in defined_attribute_paths : Len(q.elem) >= 2

----------------------------------------------------------------------------
(* PathVariableMapper (exsisting_code/xml_generator_smt.py 42-61).  A path   *)
(* and a variable name are strings, kept as sequences of their characters;   *)
(* a Z3 Bool is determined by its name.                                      *)

\* str.replace(old, new) for a one-character old
RECURSIVE Replace(_, _, _)
Replace(s, old, new) ==
    IF s = <<>> THEN <<>>
    ELSE (IF Head(s) = old THEN new ELSE <<Head(s)>>) \o Replace(Tail(s), old, new)

\* path.replace('/', '_').replace('@', '_AT_').replace('-', '_')
VarName(path) ==
    Replace(Replace(Replace(path, "/", <<"_">>), "@", <<"_", "A", "T", "_">>), "-", <<"_">>)

\* d[key] = value
Put(d, key, value) == [k \in DOMAIN d \cup {key} |-> IF k = key THEN value ELSE d[k]]

\* the paths handed to the mapper: /A-B, /A_B, /A@x, /A/AT/x, /A, /A/B, /B@x
MapperPaths ==
    {<<"/", "A", "-", "B">>,
     <<"/", "A", "_", "B">>,
     <<"/", "A", "@", "x">>,
     <<"/", "A", "/", "A", "T", "/", "x">>,
     <<"/", "A">>,
     <<"/", "A", "/", "B">>,
     <<"/", "B", "@", "x">>}

\* the names get_path is asked for: the name of every path, and one of no path
MapperNames == {VarName(p) : p \in MapperPaths} \cup {<<"_", "Z">>}

MpInit ==
    /\ MpIdle
    /\ PwIdle
    /\ ScIdle
    /\ TrIdle
    /\ SdIdle
    /\ VlIdle
    /\ LdIdle
    /\ RpIdle

\* get_or_create_var(path)
GetOrCreateVar ==
    \E path \in MapperPaths :
        /\ IF path \notin DOMAIN path_to_var
           THEN LET var_name == VarName(path)
                IN  /\ path_to_var' = Put(path_to_var, path, var_name)
                    /\ var_to_path' = Put(var_to_path, var_name, path)
                    /\ returned_var' = var_name
           ELSE /\ returned_var' = path_to_var[path]
                /\ UNCHANGED <<path_to_var, var_to_path>>
        /\ UNCHANGED looked_up
        /\ UNCHANGED notMpVars

\* get_path(var_name): self.var_to_path.get(var_name)
GetPath ==
    \E var_name \in MapperNames :
        /\ looked_up' = <<var_name, IF var_name \in DOMAIN var_to_path
                                    THEN var_to_path[var_name] ELSE <<"None">>>>
        /\ UNCHANGED <<path_to_var, var_to_path, returned_var>>
        /\ UNCHANGED notMpVars

MpNext ==
    \/ GetOrCreateVar
    \/ GetPath

SpecMapper == MpInit /\ [][MpNext]_vars

\* C29 (as stated): after any sequence of get_or_create_var calls distinct
\* registered paths are bound to distinct solver variables, and get_path of
\* the name of the variable of a registered path p gives p.
C29_MapperInjective ==
    /\ \A p, q \in DOMAIN path_to_var :
           p # q => path_to_var[p] # path_to_var[q]
    /\ \A p \in DOMAIN path_to_var :
           /\ path_to_var[p] \in DOMAIN var_to_path
           /\ var_to_path[path_to_var[p]] = p

\* the same for registered paths that hold none of '-', '_' and '@'
C29_InjectiveOnPlainPaths ==
    LET Plain(p) == \A k \in DOMAIN p : p[k] \notin {"-", "_", "@"}
        plain == {p \in DOMAIN path_to_var : Plain(p)}
    IN  \A p, q \in plain : p # q => path_to_var[p] # path_to_var[q]

====
